---- MODULE Spec2Model ----
(***************************************************************************)
(* Adherence reconciliation between the Wisepill device registry and the   *)
(* DHIS2 tracker: the event reconciler (generateEventPayload and           *)
(* getDHIS2EventPayload of the integration service) and the device         *)
(* assignment workflow (POST /devices/assign).                             *)
(*                                                                         *)
(* Time is counted in ticks, TicksPerDay ticks to a calendar day.  A date  *)
(* string is a record [fmt, at]: the format it is written in and the       *)
(* instant it denotes, so that formatting to "yyyy-MM-dd" loses the time   *)
(* of day.  Absent values (undefined, null, "") are the empty sequence     *)
(* and present values v are <<v>>.                                         *)
(***************************************************************************)
EXTENDS Integers, Sequences, FiniteSets, TLC

\* ------------------------------------------------------------------ bounds
TicksPerDay == 2
MaxLen == 2
MaxRuns == 2

\* The longest list of events handed to one upload.
MaxEvents == 201

\* The longest list of episode ids handed to one fetch.
MaxEpisodeIds == 201

\* The most program mappings the data store holds.
MaxMappings == 2

\* The last of the days an adherence string of MaxLen codes covers.
MaxDay == MaxLen - 1

Days == 0..MaxDay
Ticks == 0..((MaxDay + 1) * TicksPerDay - 1)

\* --------------------------------------------------------------- constants
DEVICE_HEALTH_DATA_ELEMENT == "QH0OjHcBBpO"
BATTERY_HEALTH_DATA_ELEMENT == "Vc6c6OjvvHO"
DOSAGE_TIME_DATA_ELEMENT == "FOHv6pUjBjv"
DEVICE_SIGNAL_DATA_ELEMENT == "oHBM5fsFc6p"

DEVICE_LINKED == "Device Linked to Episode"
DEVICE_AVAILABLE == "Device available"
DAMAGED_OR_LOST == "Device lost or damaged"
DEVICE_UNAVAILABLE == "Device is unavailable"

NONE_RECEIVED == "None"
RECEIVED_ONCE == "Once"
RECEIVED_MULTIPLE == "Multiple"
HEARTBEAT_RECEIVED == "Heartbeat"
ENROLLMENT_SIGNAL == "Enrollment"

\* The raw adherence codes of the episodes, one for each day: none, one and
\* several doses received. The code "9" of a heartbeat is walked and merged
\* as "1" is.
Codes == {"0", "1", "2"}

\* -------------------------------------------------------------- date-times
DayOf(t) == t \div TicksPerDay
Midnight(day) == day * TicksPerDay

\* DateTime.fromSQL / DateTime.fromISO: the instant a date string denotes.
fromSQL(s) == s.at
fromISO(s) == s.at
\* DateTime.toISO: the full timestamp.
toISO(t) == [fmt |-> "iso", at |-> t]
\* DateTime.toFormat("yyyy-MM-dd"): the calendar day, the time of day dropped.
toFormat(t) == [fmt |-> "ymd", at |-> Midnight(DayOf(t))]
\* DateTime.plus({days: k})
plusDays(t, k) == t + k * TicksPerDay

sqlDate(t) == [fmt |-> "sql", at |-> t]

sanitizeWisePillDateToDateTimeObjects(date) ==
  IF date.fmt = "sql" THEN [date EXCEPT !.fmt = "iso"] ELSE date

sanitizeDateFromServer(date) == toISO(fromISO(date))

\* ------------------------------------------------------------------- codec
sanitizeAdherenceCodeHeartbeatOtherwise(code) ==
  IF code = "0" THEN NONE_RECEIVED
  ELSE IF code = "1" THEN RECEIVED_ONCE
  ELSE IF code = "2" THEN RECEIVED_MULTIPLE
  ELSE HEARTBEAT_RECEIVED

sanitizeAdherenceCode(code) ==
  IF code = "0" THEN NONE_RECEIVED
  ELSE IF code = "1" THEN RECEIVED_ONCE
  ELSE IF code = "2" THEN RECEIVED_MULTIPLE
  ELSE IF code = "9" THEN HEARTBEAT_RECEIVED
  ELSE NONE_RECEIVED

\* ------------------------------------------------------------- data values
\* lodash find over a data value list: <<>> or <<the first match>>.
findDataValue(dataValues, dataElement) ==
  LET hits == SelectSeq(dataValues, LAMBDA dv : dv.dataElement = dataElement)
  IN IF Len(hits) = 0 THEN <<>> ELSE <<hits[1]>>

\* x?.value of an optional data value.
valueOf(opt) == IF Len(opt) = 0 THEN <<>> ELSE <<opt[1].value>>

generateDataValuesFromAdherenceMapping(adherence, date, batteryLevel, deviceStatus) ==
  << [dataElement |-> DOSAGE_TIME_DATA_ELEMENT, value |-> sanitizeDateFromServer(date)],
     [dataElement |-> DEVICE_SIGNAL_DATA_ELEMENT, value |-> sanitizeAdherenceCode(adherence)] >>
  \o (IF Len(batteryLevel) > 0
        THEN << [dataElement |-> BATTERY_HEALTH_DATA_ELEMENT, value |-> batteryLevel[1]] >>
        ELSE << >>)
  \o (IF Len(deviceStatus) > 0
        THEN << [dataElement |-> DEVICE_HEALTH_DATA_ELEMENT, value |-> deviceStatus[1]] >>
        ELSE << >>)

\* ------------------------------------------------------- event reconciler
\* (adherenceString ?? "").split(","): an adherence string is held as the
\* sequence of its codes; the empty (or null) string splits into one empty code.
split(adherenceString) ==
  IF Len(adherenceString) = 0 THEN << "" >> ELSE adherenceString

\* _.reverse
reverse(list) == [i \in 1..Len(list) |-> list[Len(list) + 1 - i]]

\* head(filter(events, same calendar day as eventDate)), or null.
existingEventOf(events, eventDate) ==
  LET sanitizedEventDate ==
        toFormat(fromISO(sanitizeWisePillDateToDateTimeObjects(eventDate)))
      hits == SelectSeq(events,
                LAMBDA e : toFormat(fromISO(e.occurredAt)) = sanitizedEventDate)
  IN IF Len(hits) = 0 THEN << >> ELSE << hits[1] >>

\* The computed dosage timestamp taken whatever the stored one is.
doseDateTimeOfComputed(existingEvent, dataValues) ==
  valueOf(findDataValue(dataValues, DOSAGE_TIME_DATA_ELEMENT))

\* The dosage timestamp of a merge: the later of the stored and the computed one.
doseDateTimeOf(existingEvent, dataValues) ==
  LET current == valueOf(findDataValue(dataValues, DOSAGE_TIME_DATA_ELEMENT))
      previous == valueOf(findDataValue(existingEvent.dataValues, DOSAGE_TIME_DATA_ELEMENT))
  IN IF Len(previous) > 0
       THEN IF Len(current) > 0 /\ fromISO(current[1]) > fromISO(previous[1])
              THEN current ELSE previous
       ELSE current

\* The device signal alone compared.
signalOnlyChanged(existingEvent, dataValues) ==
  valueOf(findDataValue(dataValues, DEVICE_SIGNAL_DATA_ELEMENT))
    # valueOf(findDataValue(existingEvent.dataValues, DEVICE_SIGNAL_DATA_ELEMENT))

\* "check if the adherence have changed"
signalChanged(existingEvent, dataValues) ==
  \/ valueOf(findDataValue(dataValues, DEVICE_SIGNAL_DATA_ELEMENT))
       # valueOf(findDataValue(existingEvent.dataValues, DEVICE_SIGNAL_DATA_ELEMENT))
  \/ doseDateTimeOf(existingEvent, dataValues)
       # valueOf(findDataValue(existingEvent.dataValues, DOSAGE_TIME_DATA_ELEMENT))

\* The computed data values written over the stored ones.
mergedDataValuesOverwriting(existingEvent, dataValues) == dataValues

mergedDataValuesOf(existingEvent, dataValues) ==
  SelectSeq(existingEvent.dataValues,
    LAMBDA dv : dv.dataElement \notin {DEVICE_SIGNAL_DATA_ELEMENT, DOSAGE_TIME_DATA_ELEMENT})
  \o SelectSeq(dataValues, LAMBDA dv : dv.dataElement = DEVICE_SIGNAL_DATA_ELEMENT)
  \o (LET doseDateTime == doseDateTimeOf(existingEvent, dataValues)
      IN IF Len(doseDateTime) = 0 THEN << >>
         ELSE << [dataElement |-> DOSAGE_TIME_DATA_ELEMENT, value |-> doseDateTime[1]] >>)

\* getDHIS2EventPayload: << >> for null, else the one event; uid is the id
\* uid() returns if it is called.
getDHIS2EventPayload(programStage, trackedEntity, eventDate, events, dataValues, uid) ==
  LET sanitizedEventDate ==
        toFormat(fromISO(sanitizeWisePillDateToDateTimeObjects(eventDate)))
      existingEvent == existingEventOf(events, eventDate)
      eventId == IF Len(existingEvent) > 0 THEN existingEvent[1].event ELSE uid
      payload(mergedDataValues) ==
        [event |-> eventId, dataValues |-> mergedDataValues,
         trackedEntity |-> trackedEntity, programStage |-> programStage,
         occurredAt |-> sanitizedEventDate, status |-> "COMPLETED"]
  IN IF Len(existingEvent) > 0
       THEN IF signalChanged(existingEvent[1], dataValues)
              THEN << payload(mergedDataValuesOf(existingEvent[1], dataValues)) >>
              ELSE << >>
       ELSE << payload(dataValues) >>

\* uid() is called exactly when no event of the day exists.
mintsUid(events, eventDate) == Len(existingEventOf(events, eventDate)) = 0

\* The i-th code dated i - 1 days before the anchor.
getSanitizedAdherenceBackwards(adherenceStrings, end) ==
  [i \in 1..Len(adherenceStrings) |->
     [date |-> toISO(plusDays(fromSQL(end), 1 - i)), adherence |-> adherenceStrings[i]]]

\* getSanitizedAdherence: the i-th code is dated i - 1 days after the anchor.
getSanitizedAdherence(adherenceStrings, end) ==
  [i \in 1..Len(adherenceStrings) |->
     [date |-> toISO(plusDays(fromSQL(end), i - 1)), adherence |-> adherenceStrings[i]]]

\* The expansion of the no-window path: as above, but the last code is dated
\* at lastSeen.
episodeAdherencesOf(adherences, episodeStartDate, lastSeen) ==
  [episodeCount \in 1..Len(adherences) |->
     [adherence |-> adherences[episodeCount],
      date |-> IF episodeCount = Len(adherences)
                 THEN toISO(fromSQL(lastSeen))
                 ELSE toFormat(plusDays(fromSQL(episodeStartDate), episodeCount - 1))]]

\* The walk of the no-window path over the reversed adherence events: it ends
\* at the first code "0". acc carries the payloads pushed so far and the next
\* unused uid.
RECURSIVE walkAdherenceEvents(_, _, _, _, _)
walkAdherenceEvents(adherenceEvents, k, programStage, tei, acc) ==
  IF k > Len(adherenceEvents) THEN acc
  ELSE IF adherenceEvents[k].adherence = "0" THEN acc
  ELSE LET ev == adherenceEvents[k]
           teiEvent == getDHIS2EventPayload(programStage, tei.trackedEntity,
                         ev.eventDate, tei.events, ev.dataValues, acc.uid)
       IN walkAdherenceEvents(adherenceEvents, k + 1, programStage, tei,
            [eventPayloads |-> acc.eventPayloads \o teiEvent,
             uid |-> IF mintsUid(tei.events, ev.eventDate) THEN acc.uid + 1 ELSE acc.uid])

\* "2000-01-01": a day no later than any day of the model.
defaultStartDate == toFormat(0)

\* The loop of the window path over the dated codes, oldest first.
RECURSIVE walkEpisodeAdherences(_, _, _, _, _, _, _)
walkEpisodeAdherences(episodeAdherences, k, programStage, tei, evaluationStartDate, evaluationEndDate, acc) ==
  IF k > Len(episodeAdherences) THEN acc
  ELSE LET adherence == episodeAdherences[k].adherence
           date == episodeAdherences[k].date
           adherenceDate == fromISO(date)
       IN IF evaluationStartDate <= adherenceDate /\ adherenceDate <= evaluationEndDate
            THEN LET dataValues ==
                       generateDataValuesFromAdherenceMapping(adherence, date, << >>, << >>)
                     adherenceEvent == getDHIS2EventPayload(programStage,
                                         tei.trackedEntity, date, tei.events, dataValues, acc.uid)
                 IN walkEpisodeAdherences(episodeAdherences, k + 1, programStage, tei,
                      evaluationStartDate, evaluationEndDate,
                      [eventPayloads |-> acc.eventPayloads \o adherenceEvent,
                       uid |-> IF mintsUid(tei.events, date) THEN acc.uid + 1 ELSE acc.uid])
            ELSE walkEpisodeAdherences(episodeAdherences, k + 1, programStage, tei,
                   evaluationStartDate, evaluationEndDate, acc)

\* The adherence events of the no-window path, newest first.
adherenceEventsOf(teiEpisode) ==
  reverse(
    [i \in 1..Len(split(teiEpisode.adherenceString)) |->
       LET m == episodeAdherencesOf(split(teiEpisode.adherenceString),
                  teiEpisode.episodeStartDate, teiEpisode.lastSeen[1])[i]
       IN [adherence |-> m.adherence, eventDate |-> m.date,
           dataValues |-> generateDataValuesFromAdherenceMapping(m.adherence, m.date,
                            teiEpisode.batteryLevel, teiEpisode.deviceStatus)]])

\* The body of the loop of generateEventPayload for one tracked entity.
payloadsOfTei(episodes, tei, programStage, mapping, duration_, now_, acc) ==
  LET teiEpisodeId == mapping[tei.trackedEntity]
      teiEpisode == SelectSeq(episodes,
                      LAMBDA e : Len(teiEpisodeId) > 0 /\ e.id = teiEpisodeId[1])
      startDate == duration_.startDate
      endDate == duration_.endDate
  IN IF Len(teiEpisodeId) = 0 THEN acc
     ELSE IF Len(teiEpisode) = 0 THEN acc
     ELSE IF Len(startDate) = 0 /\ Len(endDate) = 0 /\ Len(teiEpisode[1].lastSeen) > 0
       THEN walkAdherenceEvents(adherenceEventsOf(teiEpisode[1]), 1, programStage, tei, acc)
     ELSE IF Len(startDate) > 0 \/ Len(endDate) > 0
       THEN walkEpisodeAdherences(
              getSanitizedAdherence(split(teiEpisode[1].adherenceString),
                                    teiEpisode[1].episodeStartDate),
              1, programStage, tei,
              IF Len(startDate) > 0 THEN fromISO(startDate[1]) ELSE fromISO(defaultStartDate),
              IF Len(endDate) > 0 THEN fromISO(endDate[1]) ELSE now_,
              acc)
     ELSE acc

RECURSIVE generateEventPayloadFrom(_, _, _, _, _, _, _, _)
generateEventPayloadFrom(episodes, trackedEntityInstances, k, programStage, mapping, duration_, now_, acc) ==
  IF k > Len(trackedEntityInstances) THEN acc
  ELSE generateEventPayloadFrom(episodes, trackedEntityInstances, k + 1, programStage,
         mapping, duration_, now_,
         payloadsOfTei(episodes, trackedEntityInstances[k], programStage, mapping,
                       duration_, now_, acc))

\* generateEventPayload: the payloads of one run and the next unused uid.
generateEventPayload(episodes, trackedEntityInstances, programStage, mapping, duration_, now_, uid) ==
  generateEventPayloadFrom(episodes, trackedEntityInstances, 1, programStage, mapping,
                           duration_, now_, [eventPayloads |-> << >>, uid |-> uid])

\* --------------------------------------------------------- tracker store
\* The tracker's import of one event under strategy CREATE_AND_UPDATE: an
\* event whose id is stored replaces it, any other event is added.
importEvent(store, e) ==
  IF \E i \in 1..Len(store) : store[i].event = e.event
    THEN [i \in 1..Len(store) |-> IF store[i].event = e.event THEN e ELSE store[i]]
    ELSE Append(store, e)

RECURSIVE importEvents(_, _, _)
importEvents(store, events, k) ==
  IF k > Len(events) THEN store
  ELSE importEvents(importEvent(store, events[k]), events, k + 1)

\* uploadDhis2Events, every page accepted by the tracker.
uploadDhis2Events(store, eventPayloads) == importEvents(store, eventPayloads, 1)

\* An enrollment event uploaded as a completed one.
enrollmentEventCompleted(uid, trackedEntity, programStage, now_) ==
  [event |-> uid, dataValues |->
     << [dataElement |-> DEVICE_SIGNAL_DATA_ELEMENT, value |-> ENROLLMENT_SIGNAL],
        [dataElement |-> DOSAGE_TIME_DATA_ELEMENT, value |-> toISO(now_)] >>,
   trackedEntity |-> trackedEntity, programStage |-> programStage,
   occurredAt |-> toFormat(now_), status |-> "COMPLETED"]

\* The event updateDATEnrollmentStatus uploads when a device is assigned.
enrollmentEvent(uid, trackedEntity, programStage, now_) ==
  [event |-> uid, dataValues |->
     << [dataElement |-> DEVICE_SIGNAL_DATA_ELEMENT, value |-> ENROLLMENT_SIGNAL],
        [dataElement |-> DOSAGE_TIME_DATA_ELEMENT, value |-> toISO(now_)] >>,
   trackedEntity |-> trackedEntity, programStage |-> programStage,
   occurredAt |-> toFormat(now_), status |-> "ACTIVE"]

\* ------------------------------------------------- reconciliation: state
VARIABLES
  now,        \* DateTime.now() of the runs
  episode,    \* the episode of the registry linked to tracked entity te1
  remote,     \* the events of the tracker, in the order the tracker lists them
  nextUid,    \* the next id uid() returns
  runs,       \* runs of startIntegrationProcess so far
  payloads,   \* eventPayloads of the last run
  fetched,    \* the tracker's events as the last run read them
  lastRun     \* "noWindow" or "window" as the last run was given, "none" once the device has reported since

reconVars == << now, episode, remote, nextUid, runs, payloads, fetched,
                lastRun >>

programStage == "adherenceStage"

\* te1 is linked to episode ep1, te2 has no episode id, te3 names an episode
\* the registry does not return.
TrackedEntities == << "te1", "te2", "te3" >>

trackedEntityInstancesWithEpisodesMapping ==
  [te \in {"te1", "te2", "te3"} |->
     IF te = "te1" THEN << "ep1" >> ELSE IF te = "te3" THEN << "ep3" >> ELSE << >>]

\* getDhis2TrackedEntityInstancesByAttribute: each tracked entity with the
\* events of its enrollment that belong to the program stage.
trackedEntityInstancesOf(store) ==
  [k \in 1..Len(TrackedEntities) |->
     [trackedEntity |-> TrackedEntities[k],
      events |-> SelectSeq(store, LAMBDA e : e.trackedEntity = TrackedEntities[k]
                                             /\ e.programStage = programStage)]]

AdherenceStrings == UNION {[1..n -> Codes] : n \in 0..MaxLen}

OptionalLastSeen == {<< >>} \cup {<< sqlDate(t) >> : t \in Ticks}

Episodes ==
  {[id |-> "ep1", adherenceString |-> a, episodeStartDate |-> sqlDate(Midnight(0)),
    lastSeen |-> ls, batteryLevel |-> << "80" >>, deviceStatus |-> << DEVICE_LINKED >>]
     : a \in AdherenceStrings, ls \in OptionalLastSeen}

OptionalDay == {<< >>} \cup {<< toFormat(Midnight(d)) >> : d \in Days}

Durations == {[startDate |-> s, endDate |-> e] : s \in OptionalDay, e \in OptionalDay}

ReconInit ==
  /\ now = Midnight(MaxDay) + TicksPerDay - 1
  /\ episode \in Episodes
  /\ remote \in {<< >>} \cup
       {<< enrollmentEvent(0, "te1", programStage, Midnight(0)) >>}
  /\ nextUid = 1
  /\ runs = 0
  /\ payloads = << >>
  /\ fetched = remote
  /\ lastRun = "none"

\* startIntegrationProcess with the given {startDate, endDate}: the tracked
\* entities and their events are read, the payloads generated and, if there
\* are any, uploaded.
startIntegrationProcess(d) ==
  /\ runs < MaxRuns
  /\ \E trackedEntityInstances \in {trackedEntityInstancesOf(remote)} :
     \E result \in {generateEventPayload(<< episode >>, trackedEntityInstances,
                        programStage, trackedEntityInstancesWithEpisodesMapping,
                        d, now, nextUid)} :
       /\ payloads' = result.eventPayloads
       /\ nextUid' = result.uid
  /\ remote' = IF Len(payloads') > 0 THEN uploadDhis2Events(remote, payloads') ELSE remote
  /\ lastRun' = IF Len(d.startDate) = 0 /\ Len(d.endDate) = 0 THEN "noWindow" ELSE "window"
  /\ fetched' = remote
  /\ runs' = runs + 1
  /\ UNCHANGED << now, episode >>

StartIntegration == \E d \in Durations : startIntegrationProcess(d)

\* The registry's episode after the device has reported again between two
\* runs: lastSeen is the present moment and the code of the last day is
\* rewritten.
DeviceReport ==
  /\ 0 < runs /\ runs < MaxRuns
  /\ Len(episode.lastSeen) > 0
  /\ Len(episode.adherenceString) > 0
  /\ fromSQL(episode.lastSeen[1]) < now
  /\ \E c \in Codes :
       /\ c # episode.adherenceString[Len(episode.adherenceString)]
       /\ episode' = [episode EXCEPT
            !.lastSeen = << sqlDate(now) >>,
            !.adherenceString = [@ EXCEPT ![Len(@)] = c]]
  /\ lastRun' = "none"
  /\ UNCHANGED << now, remote, nextUid, runs, payloads, fetched >>

\* ------------------------------------------------- pure helpers: state
VARIABLES
  helperCall,   \* the helper called and its argument
  helperResult  \* << what it returned >>, << >> while it has not returned

helperVars == << helperCall, helperResult >>

\* No helper is being called on its own.
HelperIdle ==
  /\ helperCall = [fn |-> "none", arg |-> << >>]
  /\ helperResult = << >>

\* ------------------------------------------------------- upload: state
VARIABLES
  uploadState,   \* "idle", "uploading", "returned" or "raised"
  uploadEvents,  \* the eventPayloads uploadDhis2Events was called with
  page,          \* the page counter of its loop
  posts          \* the POSTs sent so far: the events of each and how it ended

uploadVars == << uploadState, uploadEvents, page, posts >>

\* uploadDhis2Events is not being called on its own.
UploadIdle ==
  /\ uploadState = "idle"
  /\ uploadEvents = << >>
  /\ page = 1
  /\ posts = << >>

\* ----------------------------------------------- episode fetcher: state
VARIABLES
  fetchState,         \* "idle", "fetching", "returned" or "raised"
  episodeIds,         \* the episode ids getWisepillEpisodeValues was called with
  fetchCount,         \* the batch counter of its loop
  fetchStep,          \* the GET the loop sends next: "episodes" or "devices"
  batchEpisodes,      \* << the records of the batch's episodes >>, << >> if undefined
  sanitizedEpisodes,  \* the episodes pushed so far
  gets                \* the GETs sent so far: url, batch and how each ended

fetchVars == << fetchState, episodeIds, fetchCount, fetchStep, batchEpisodes,
                sanitizedEpisodes, gets >>

\* getWisepillEpisodeValues is not being called on its own.
FetchIdle ==
  /\ fetchState = "idle"
  /\ episodeIds = << >>
  /\ fetchCount = 0
  /\ fetchStep = "episodes"
  /\ batchEpisodes = << >>
  /\ sanitizedEpisodes = << >>
  /\ gets = << >>

\* ------------------------------------------- integration job: state
VARIABLES
  jobStep,              \* "idle", "mapping", "query", "fetch", "upload", "close" or "ended"
  jobEnded,             \* how the job ended: "noMapping", "break", "caught" or "done"
  programMapping,       \* the program mappings of the data store
  mappingCount,         \* the position in programMapping of the one being processed
  jobTrackedEntities,   \* trackedEntityInstances of the mapping being processed
  jobEpisodes,          \* episodes of the mapping being processed
  jobCalls              \* the calls awaited so far: name, mapping and how each ended

jobVars == << jobStep, jobEnded, programMapping, mappingCount, jobTrackedEntities,
              jobEpisodes, jobCalls >>

\* startIntegrationProcess is not being followed mapping by mapping.
JobIdle ==
  /\ jobStep = "idle"
  /\ jobEnded = "none"
  /\ programMapping = << >>
  /\ mappingCount = 1
  /\ jobTrackedEntities = << >>
  /\ jobEpisodes = << >>
  /\ jobCalls = << >>

\* ----------------------------------------------- device details: state
VARIABLES
  detailsState,    \* "idle", "awaiting", "returned" or "raised"
  episodeAnswer,   \* << the response to the GET of the device's episodes >>, << >> if it throws
  deviceAnswer,    \* << the response to the GET of the device's details >>, << >> if it throws
  settled,         \* the GETs that have completed, in the order they did
  detailsResult    \* << {data, status} >> once getDeviceDetailsFromWisepillAPI has returned

detailsVars == << detailsState, episodeAnswer, deviceAnswer, settled, detailsResult >>

\* getDeviceDetailsFromWisepillAPI is not being called on its own.
DetailsIdle ==
  /\ detailsState = "idle"
  /\ episodeAnswer = << >>
  /\ deviceAnswer = << >>
  /\ settled = << >>
  /\ detailsResult = << >>

\* ------------------------------------------------------- alarms: state
VARIABLES
  alarmStep,      \* "idle", "received", the PUT awaited ("setAlarm", "setRefillAlarm"), "answered" or "raised"
  alarmBody,      \* req.body of POST /alarms, each field << >> when absent or null
  alarmPuts,      \* the PUTs sent to the registry for the request, in order, with their results
  alarmResponse   \* << {status, message} >> once the handler has answered

alarmVars == << alarmStep, alarmBody, alarmPuts, alarmResponse >>

noAlarmBody == [imei |-> << >>, alarm |-> << >>, alarmStatus |-> << >>, refillAlarm |-> << >>, refillAlarmStatus |-> << >>, days |-> << >>]

\* No request to POST /alarms is being handled.
AlarmIdle ==
  /\ alarmStep = "idle"
  /\ alarmBody = noAlarmBody
  /\ alarmPuts = << >>
  /\ alarmResponse = << >>

\* ----------------------------------------------------- services: state
serviceVars == << uploadVars, fetchVars, jobVars, detailsVars, alarmVars >>

ServicesIdle == UploadIdle /\ FetchIdle /\ JobIdle /\ DetailsIdle /\ AlarmIdle

\* --------------------------------------------- device assignment: state
VARIABLES
  pc,           \* the await the handler of POST /devices/assign stands at; "done" once it has returned
  force,        \* req.body.force, << >> if the request has none
  deviceStatus, \* << parseInt(device_status) >> of the device found
  patient,      \* what getPatientDetailsFromDHIS2 resolved to, << >> for undefined or null
  episodeId,    \* << >> for null
  episodeIdAlreadyExisted,
  calls,        \* the requests sent to the registry and the tracker, in order, with how each ended
  responses     \* the responses sent

assignVars == << pc, force, deviceStatus, patient, episodeId, episodeIdAlreadyExisted,
                 calls, responses >>

assignedDeviceStatus == 1
availableDeviceStatus == 2
damagedDeviceStatus == 3
unavailableDeviceStatus == 9

\* The status codes a device of the registry may carry: the four the handler
\* names and one it does not.
DeviceStatusCodes ==
  {assignedDeviceStatus, availableDeviceStatus, damagedDeviceStatus,
   unavailableDeviceStatus} \cup {4}

IMEI == "imei1"
PatientId == "patient1"
TimeZone == "tz"

\* Messages are held as the sequences of their parts.
assignedResponseNamingDeviceOnly(episodeId_, deviceImei, patientId) ==
  [statusCode |-> 200,
   body |-> [status |-> 201, episode |-> episodeId_,
             message |-> << "Device ", deviceImei, " assigned at timezone ", TimeZone >>]]

assignedResponse(episodeId_, deviceImei, patientId) ==
  [statusCode |-> 200,
   body |-> [status |-> 201, episode |-> episodeId_,
             message |-> << "Device ", deviceImei, " assigned to ", patientId,
                            " at timezone ", TimeZone >>]]

notAssignedResponse(deviceAssignmentResult) ==
  [statusCode |-> 409, body |-> [message |-> << deviceAssignmentResult >>]]

alreadyAssignedResponse(imei, patientId) ==
  [statusCode |-> 409,
   body |-> [message |-> << "Device ", imei, " is already assigned to another client" >>,
             imei |-> imei, patientId |-> patientId]]

messageResponse(statusCode, message) ==
  [statusCode |-> statusCode, body |-> [message |-> message]]

\* The catch of the handler.
internalServerError ==
  [statusCode |-> 500, body |-> [message |-> << "Internal server error" >>]]

called(name, ended) == Append(calls, [name |-> name, ended |-> ended])

\* The await the handler goes to once the patient's episode is known to
\* exist: assignEpisodeToDevice first unlinks an episode that already existed.
toAssignEpisodeToDevice(clearEpisodeLinkages) ==
  IF clearEpisodeLinkages THEN "unlinkEpisode" ELSE "assignDevice"

\* A handler that, forced, goes on to the episode without unassigning the
\* device first.
afterPatientDetailsNotUnassigning(status, force_, fetchedEpisodeId) ==
  IF status \in {availableDeviceStatus, assignedDeviceStatus}
    THEN IF status = assignedDeviceStatus /\ force_ # << TRUE >>
           THEN [pc |-> "done", responses |-> << alreadyAssignedResponse(IMEI, PatientId) >>]
         ELSE IF Len(fetchedEpisodeId) = 0
           THEN [pc |-> "createEpisode", responses |-> << >>]
         ELSE [pc |-> toAssignEpisodeToDevice(TRUE), responses |-> << >>]
  ELSE [pc |-> "done", responses |-> << messageResponse(409, << "Device ", IMEI >>) >>]

\* A handler that creates an episode for an Available device whether or not
\* the patient has one.
afterPatientDetailsAlwaysCreating(status, force_, fetchedEpisodeId) ==
  IF status = availableDeviceStatus
    THEN [pc |-> "createEpisode", responses |-> << >>]
  ELSE IF status = assignedDeviceStatus /\ force_ = << TRUE >>
    THEN [pc |-> "unassignPreviousLinkedEpisodes", responses |-> << >>]
  ELSE [pc |-> "done", responses |-> << alreadyAssignedResponse(IMEI, PatientId) >>]

\* The branch of the handler on the device status, the patient being found.
afterPatientDetails(status, force_, fetchedEpisodeId) ==
  IF status = availableDeviceStatus
    THEN IF Len(fetchedEpisodeId) = 0
           THEN [pc |-> "createEpisode", responses |-> << >>]
           ELSE [pc |-> toAssignEpisodeToDevice(TRUE), responses |-> << >>]
  ELSE IF status = assignedDeviceStatus
    THEN IF force_ # << TRUE >>
           THEN [pc |-> "done", responses |-> << alreadyAssignedResponse(IMEI, PatientId) >>]
           ELSE [pc |-> "unassignPreviousLinkedEpisodes", responses |-> << >>]
  ELSE IF status = damagedDeviceStatus
    THEN [pc |-> "done",
          responses |-> << messageResponse(409, << "Device ", IMEI, " is marked as damaged" >>) >>]
  ELSE IF status = unavailableDeviceStatus
    THEN [pc |-> "done",
          responses |-> << messageResponse(409, << "Device ", IMEI, " is unavailable" >>) >>]
  ELSE [pc |-> "done", responses |-> << >>]

PatientDetails ==
  {<< >>} \cup {<< [trackedEntity |-> TrackedEntities[1], programStage |-> programStage,
                    episodeId |-> e] >> : e \in {<< >>, << "ep1" >>}}

\* The episode of the registry while a device is being assigned.
unassignedEpisode ==
  [id |-> "ep1", adherenceString |-> << >>, episodeStartDate |-> sqlDate(Midnight(0)),
   lastSeen |-> << >>, batteryLevel |-> << "80" >>, deviceStatus |-> << DEVICE_LINKED >>]

AssignIdle ==
  /\ pc = "idle"
  /\ force = << >>
  /\ deviceStatus = << >>
  /\ patient = << >>
  /\ episodeId = << >>
  /\ episodeIdAlreadyExisted = FALSE
  /\ calls = << >>
  /\ responses = << >>

\* A valid request {imei, patientId, force} has arrived.
AssignInit ==
  /\ pc = "findDevice"
  /\ force \in {<< >>, << FALSE >>, << TRUE >>}
  /\ deviceStatus = << >>
  /\ patient = << >>
  /\ episodeId = << >>
  /\ episodeIdAlreadyExisted = FALSE
  /\ calls = << >>
  /\ responses = << >>
  /\ now \in {t \in Ticks : DayOf(t) = 0}
  /\ episode = unassignedEpisode
  /\ remote = << >>
  /\ nextUid = 1
  /\ runs = 0
  /\ payloads = << >>
  /\ fetched = << >>
  /\ lastRun = "none"
  /\ HelperIdle
  /\ ServicesIdle

untouchedByAssign == << now, episode, runs, payloads, fetched, lastRun, helperVars, serviceVars >>

\* GET devices/findDevice
FindDevice ==
  /\ pc = "findDevice"
  /\ \/ /\ calls' = called("findDevice", "threw")
        /\ responses' = Append(responses, internalServerError)
        /\ pc' = "done"
        /\ UNCHANGED deviceStatus
     \/ /\ calls' = called("findDevice", "failed")
        /\ responses' = Append(responses,
             messageResponse(404, << "Device ", IMEI, " not found" >>))
        /\ pc' = "done"
        /\ UNCHANGED deviceStatus
     \/ \E device_status \in DeviceStatusCodes :
          /\ calls' = called("findDevice", "ok")
          /\ deviceStatus' = << device_status >>
          /\ pc' = "getPatientDetailsFromDHIS2"
          /\ UNCHANGED responses
  /\ UNCHANGED << force, patient, episodeId, episodeIdAlreadyExisted, remote, nextUid >>
  /\ UNCHANGED untouchedByAssign

\* getPatientDetailsFromDHIS2 and the branch on the device status that
\* follows it; destructuring undefined or null throws.  A patient record
\* always carries its trackedEntity, so the handler's test of a record
\* without one (404 "Patient not found") never succeeds.
GetPatientDetails ==
  /\ pc = "getPatientDetailsFromDHIS2"
  /\ \E details \in PatientDetails :
       /\ patient' = details
       /\ IF Len(details) = 0
            THEN /\ calls' = called("getPatientDetailsFromDHIS2", "failed")
                 /\ responses' = Append(responses, internalServerError)
                 /\ pc' = "done"
                 /\ UNCHANGED << episodeId, episodeIdAlreadyExisted >>
            ELSE /\ calls' = called("getPatientDetailsFromDHIS2", "ok")
                 /\ episodeId' = details[1].episodeId
                 /\ episodeIdAlreadyExisted' = (Len(details[1].episodeId) > 0)
                 /\ \E branch \in {afterPatientDetails(deviceStatus[1], force,
                                                       details[1].episodeId)} :
                      /\ pc' = branch.pc
                      /\ responses' = responses \o branch.responses
  /\ UNCHANGED << force, deviceStatus, remote, nextUid >>
  /\ UNCHANGED untouchedByAssign

\* unassignPreviousLinkedEpisodes: a result code other than 0 makes an Error
\* that is not thrown.
UnassignPreviousLinkedEpisodes ==
  /\ pc = "unassignPreviousLinkedEpisodes"
  /\ \/ /\ \E ended \in {"ok", "failed"} : calls' = called("unassignDevice(device)", ended)
        /\ pc' = IF Len(episodeId) = 0 THEN "createEpisode"
                 ELSE toAssignEpisodeToDevice(episodeIdAlreadyExisted)
        /\ UNCHANGED responses
     \/ /\ calls' = called("unassignDevice(device)", "threw")
        /\ responses' = Append(responses, internalServerError)
        /\ pc' = "done"
  /\ UNCHANGED << force, deviceStatus, patient, episodeId, episodeIdAlreadyExisted,
                  remote, nextUid >>
  /\ UNCHANGED untouchedByAssign

\* createDeviceWisepillEpisodes
CreateEpisode ==
  /\ pc = "createEpisode"
  /\ \/ /\ calls' = called("createEpisode", "ok")
        /\ episodeId' = << "ep2" >>
        /\ pc' = toAssignEpisodeToDevice(episodeIdAlreadyExisted)
        /\ UNCHANGED responses
     \/ /\ calls' = called("createEpisode", "failed")
        /\ responses' = Append(responses,
             messageResponse(409, << "Could not generate episode for device ", IMEI >>))
        /\ pc' = "done"
        /\ UNCHANGED episodeId
     \/ /\ calls' = called("createEpisode", "threw")
        /\ responses' = Append(responses, internalServerError)
        /\ pc' = "done"
        /\ UNCHANGED episodeId
  /\ UNCHANGED << force, deviceStatus, patient, episodeIdAlreadyExisted, remote, nextUid >>
  /\ UNCHANGED untouchedByAssign

\* assignEpisodeToDevice, clearEpisodeLinkages: an error is logged only.
UnlinkEpisode ==
  /\ pc = "unlinkEpisode"
  /\ \E ended \in {"ok", "threw"} : calls' = called("unassignDevice(episode)", ended)
  /\ pc' = "assignDevice"
  /\ UNCHANGED << force, deviceStatus, patient, episodeId, episodeIdAlreadyExisted,
                  responses, remote, nextUid >>
  /\ UNCHANGED untouchedByAssign

\* assignEpisodeToDevice, PUT devices/assignDevice
AssignDevice ==
  /\ pc = "assignDevice"
  /\ \/ /\ calls' = called("assignDevice", "ok")
        /\ pc' = "updateDATEnrollmentStatus"
        /\ UNCHANGED responses
     \/ /\ calls' = called("assignDevice", "failed")
        /\ responses' = Append(responses, notAssignedResponse("Result"))
        /\ pc' = "done"
     \/ /\ calls' = called("assignDevice", "threw")
        /\ responses' = Append(responses, internalServerError)
        /\ pc' = "done"
  /\ UNCHANGED << force, deviceStatus, patient, episodeId, episodeIdAlreadyExisted,
                  remote, nextUid >>
  /\ UNCHANGED untouchedByAssign

\* updateDATEnrollmentStatus: the enrollment event is uploaded; a failure of
\* the upload is logged only.
UpdateDATEnrollmentStatus ==
  /\ pc = "updateDATEnrollmentStatus"
  /\ \/ /\ calls' = called("uploadDhis2Events", "ok")
        /\ remote' = uploadDhis2Events(remote,
             << enrollmentEvent(nextUid, patient[1].trackedEntity,
                                patient[1].programStage, now) >>)
     \/ /\ calls' = called("uploadDhis2Events", "failed")
        /\ UNCHANGED remote
  /\ nextUid' = nextUid + 1
  /\ pc' = "setTimezone"
  /\ UNCHANGED << force, deviceStatus, patient, episodeId, episodeIdAlreadyExisted,
                  responses >>
  /\ UNCHANGED untouchedByAssign

\* assignEpisodeToDevice, PUT devices/setTimezone, and the response
SetTimezone ==
  /\ pc = "setTimezone"
  /\ \/ /\ calls' = called("setTimezone", "ok")
        /\ responses' = Append(responses, assignedResponse(episodeId[1], IMEI, PatientId))
     \/ /\ calls' = called("setTimezone", "threw")
        /\ responses' = Append(responses, internalServerError)
  /\ pc' = "done"
  /\ UNCHANGED << force, deviceStatus, patient, episodeId, episodeIdAlreadyExisted,
                  remote, nextUid >>
  /\ UNCHANGED untouchedByAssign

\* ------------------------------------------------------- alarm day masks
\* Strings are held as the sequences of their characters.
MaxDecimalValue == 127
HighestBit == 6

pow2(i) == 2 ^ i

\* The loop of binaryToDecimal over binaryArray, i counted from 0 as the code
\* counts it.
RECURSIVE binaryToDecimalFrom(_, _, _)
binaryToDecimalFrom(binaryArray, i, decimalValue) ==
  IF i >= Len(binaryArray) THEN decimalValue
  ELSE IF binaryArray[i + 1] = "1"
         THEN binaryToDecimalFrom(binaryArray, i + 1, decimalValue + pow2(i))
  ELSE IF binaryArray[i + 1] # "0" THEN -1
  ELSE binaryToDecimalFrom(binaryArray, i + 1, decimalValue)

binaryToDecimalLeftmostFirst(binaryString) ==
  binaryToDecimalFrom(binaryString, 0, 0)

binaryToDecimal(binaryString) ==
  binaryToDecimalFrom(reverse(binaryString), 0, 0)

InvalidInput == << "I", "n", "v", "a", "l", "i", "d", " ", "i", "n", "p", "u", "t" >>

\* The loop of decimalToBinary from bit i down to bit 0.
RECURSIVE decimalToBinaryFrom(_, _, _)
decimalToBinaryFrom(decimalValue, i, binaryString) ==
  IF i < 0 THEN binaryString
  ELSE IF decimalValue >= pow2(i)
         THEN decimalToBinaryFrom(decimalValue - pow2(i), i - 1, Append(binaryString, "1"))
  ELSE decimalToBinaryFrom(decimalValue, i - 1, Append(binaryString, "0"))

decimalToBinary(decimalValue) ==
  IF decimalValue < 0 \/ decimalValue > MaxDecimalValue THEN InvalidInput
  ELSE decimalToBinaryFrom(decimalValue, HighestBit, << >>)

\* ------------------------------------------------- pure helpers: calls
Bits == {"0", "1"}

\* The arguments the helpers are called with: numbers around the range of a
\* day mask, day masks of up to HighestBit + 1 characters, some of them with
\* a character that is no bit, and adherence codes of the registry and others.
DecimalValues == (0 - 2)..(MaxDecimalValue + 2)

BinaryStrings ==
  UNION {[1..n -> Bits] : n \in 0..(HighestBit + 1)}
    \cup {[i \in 1..(HighestBit + 1) |-> IF i = k THEN c ELSE "1"] :
            k \in 1..(HighestBit + 1), c \in {"2", "x", " "}}

AdherenceCodes == {"0", "1", "2", "9", "", "3", "8", "a", " ", "00", "01", "12", "19", "1,2"}

\* Episodes whose start date has any time of day, for the window path alone.
TimedEpisodes ==
  {[id |-> "ep1", adherenceString |-> a, episodeStartDate |-> sqlDate(t),
    lastSeen |-> << >>, batteryLevel |-> << "80" >>, deviceStatus |-> << DEVICE_LINKED >>]
     : a \in AdherenceStrings, t \in Ticks}

\* The durations that name a start date or an end date.
Windows == {d \in Durations : Len(d.startDate) > 0 \/ Len(d.endDate) > 0}

\* DateTime.now() at any time of the last day.
Nows == {Midnight(MaxDay) + k : k \in 0..(TicksPerDay - 1)}

HelperCalls ==
  {[fn |-> "decimalToBinary", arg |-> n] : n \in DecimalValues}
    \cup {[fn |-> "binaryToDecimal", arg |-> s] : s \in BinaryStrings}
    \cup {[fn |-> "sanitizeAdherenceCode", arg |-> c] : c \in AdherenceCodes}
    \cup {[fn |-> "generateEventPayload",
           arg |-> [episode |-> e, duration |-> d, now |-> n]] :
             e \in TimedEpisodes, d \in Windows, n \in Nows}

DecimalToBinary ==
  /\ helperCall.fn = "decimalToBinary"
  /\ helperResult = << >>
  /\ helperResult' = << decimalToBinary(helperCall.arg) >>
  /\ UNCHANGED helperCall

BinaryToDecimal ==
  /\ helperCall.fn = "binaryToDecimal"
  /\ helperResult = << >>
  /\ helperResult' = << binaryToDecimal(helperCall.arg) >>
  /\ UNCHANGED helperCall

SanitizeAdherenceCode ==
  /\ helperCall.fn = "sanitizeAdherenceCode"
  /\ helperResult = << >>
  /\ helperResult' = << sanitizeAdherenceCode(helperCall.arg) >>
  /\ UNCHANGED helperCall

\* generateEventPayload called with a window for the tracked entities of a
\* tracker that stores no event.
GenerateEventPayload ==
  /\ helperCall.fn = "generateEventPayload"
  /\ helperResult = << >>
  /\ helperResult' =
       << generateEventPayload(<< helperCall.arg.episode >>,
            trackedEntityInstancesOf(<< >>), programStage,
            trackedEntityInstancesWithEpisodesMapping,
            helperCall.arg.duration, helperCall.arg.now, 1).eventPayloads >>
  /\ UNCHANGED helperCall

\* ----------------------------------------------------- upload: calls
paginationSize == 100

\* lodash chunk: consecutive pages of size elements, the last one shorter if
\* the list does not divide evenly.
chunk(list, size) ==
  [k \in 1..((Len(list) + size - 1) \div size) |->
     SubSeq(list, (k - 1) * size + 1,
            IF k * size < Len(list) THEN k * size ELSE Len(list))]

chunkedEvents == chunk(uploadEvents, paginationSize)

\* How a POST of a page to the tracker ends: with status 200, with another
\* status that does not make the client throw, or with an error thrown by the
\* client that carries no response (the network failed), a response whose
\* body holds an import response, a response whose body holds a validation
\* report, or a response whose body holds neither (a gateway's or an
\* authentication error).
PostOutcomes ==
  {"200", "otherStatus", "noResponse", "importResponse", "validationReport",
   "noValidationReport"}

thrown(outcome) == outcome \notin {"200", "otherStatus"}

\* logSanitizedConflictsImportSummary: "logged", or "threw" when it reads
\* errorReports of a validation report the response does not have.
logSanitizedConflictsImportSummary(errorResponse) ==
  IF errorResponse = "noResponse" THEN "logged"
  ELSE IF errorResponse = "importResponse" THEN "logged"
  ELSE IF errorResponse = "validationReport" THEN "logged"
  ELSE "threw"

\* The events of the model stand for themselves: the i-th payload is i.
EventLists == {[i \in 1..n |-> i] : n \in 0..MaxEvents}

\* One turn of the loop of uploadDhis2Events: the page is POSTed and the
\* outcome logged; an error thrown while the catch block logs leaves the
\* function.
PostPage ==
  /\ uploadState = "uploading"
  /\ page <= Len(chunkedEvents)
  /\ \E outcome \in PostOutcomes :
       /\ posts' = Append(posts, [events |-> chunkedEvents[page], outcome |-> outcome])
       /\ IF thrown(outcome) /\ logSanitizedConflictsImportSummary(outcome) = "threw"
            THEN uploadState' = "raised" /\ UNCHANGED page
            ELSE page' = page + 1 /\ UNCHANGED uploadState
  /\ UNCHANGED uploadEvents

\* The loop has ended.
UploadReturns ==
  /\ uploadState = "uploading"
  /\ page > Len(chunkedEvents)
  /\ uploadState' = "returned"
  /\ UNCHANGED << uploadEvents, page, posts >>

\* ---------------------------------------------- episode fetcher: calls
imeiGroupCount == 100

chuckedEpisodeIds == chunk(episodeIds, imeiGroupCount)

\* getDeviceStatus of an optional status code: parseInt of undefined is NaN.
getDeviceStatus(status) ==
  IF status = << "1" >> THEN DEVICE_LINKED
  ELSE IF status = << "2" >> THEN DEVICE_AVAILABLE
  ELSE IF status = << "3" >> THEN DAMAGED_OR_LOST
  ELSE IF status = << "9" >> THEN DEVICE_UNAVAILABLE
  ELSE ""

\* The lists of episode ids: the i-th id is i, and so is the IMEI of its device.
EpisodeIdLists == {[i \in 1..n |-> i] : n \in 0..MaxEpisodeIds}

\* GET episodes/getEpisodes for the next batch: the client throws, or the
\* registry answers with an envelope without records, with no record, or
\* with the record of each episode of the batch.
GetEpisodes ==
  /\ fetchState = "fetching"
  /\ fetchStep = "episodes"
  /\ fetchCount < Len(chuckedEpisodeIds)
  /\ fetchCount' = fetchCount + 1
  /\ \E outcome \in {"threw", "noRecords", "emptyRecords", "ok"} :
       /\ gets' = Append(gets, [url |-> "episodes/getEpisodes",
                                batch |-> fetchCount', outcome |-> outcome])
       /\ IF outcome = "threw"
            THEN fetchState' = "raised" /\ UNCHANGED << fetchStep, batchEpisodes >>
            ELSE /\ fetchStep' = "devices"
                 /\ batchEpisodes' =
                      IF outcome = "ok" THEN << chuckedEpisodeIds[fetchCount'] >>
                      ELSE IF outcome = "emptyRecords" THEN << << >> >>
                      ELSE << >>
                 /\ UNCHANGED fetchState
  /\ UNCHANGED << episodeIds, sanitizedEpisodes >>

\* GET devices/getDeviceDetail for the devices of the batch's episodes and the
\* loop over the episodes: the client throws, or the registry answers with an
\* envelope without records or with the record of each device, all linked.
\* Episodes that are undefined are not iterable.
GetDeviceDetail ==
  /\ fetchState = "fetching"
  /\ fetchStep = "devices"
  /\ \E outcome \in {"threw", "noRecords", "ok"} :
       /\ gets' = Append(gets, [url |-> "devices/getDeviceDetail",
                                batch |-> fetchCount, outcome |-> outcome])
       /\ IF outcome = "threw" \/ batchEpisodes = << >>
            THEN fetchState' = "raised" /\ UNCHANGED << fetchStep, sanitizedEpisodes >>
            ELSE /\ sanitizedEpisodes' = sanitizedEpisodes \o
                      [i \in 1..Len(batchEpisodes[1]) |->
                         [id |-> batchEpisodes[1][i], imei |-> batchEpisodes[1][i],
                          deviceStatus |-> getDeviceStatus(
                            IF outcome = "ok" THEN << "1" >> ELSE << >>)]]
                 /\ fetchStep' = "episodes"
                 /\ UNCHANGED fetchState
  /\ UNCHANGED << episodeIds, fetchCount, batchEpisodes >>

\* The loop has ended.
FetchReturns ==
  /\ fetchState = "fetching"
  /\ fetchStep = "episodes"
  /\ fetchCount >= Len(chuckedEpisodeIds)
  /\ fetchState' = "returned"
  /\ UNCHANGED << episodeIds, fetchCount, fetchStep, batchEpisodes, sanitizedEpisodes, gets >>

\* ------------------------------------------- integration job: calls
\* The program mappings of the data store: each well shaped or without its
\* attributes, and with the program stage among its treatment outcome
\* program stages or with none.
ProgramMappings ==
  UNION {[1..n -> [program : {"program"}, programStage : {programStage},
                   attributes : {<< >>, << [episodeId |-> "episodeIdAttribute",
                                          deviceIMEInumber |-> "imeiAttribute"] >>},
                   treatmentOutcomeProgramStages : {{}, {programStage}}]]
           : n \in 0..MaxMappings}

\* What the tracker holds for the tracked entities of a mapping.
JobTrackedEntityInstances ==
  {trackedEntityInstancesOf(<< >>),
   trackedEntityInstancesOf(<< enrollmentEvent(0, "te1", programStage, Midnight(0)) >>)}

\* What the registry returns for the episodes of a mapping: the episode of
\* te1, seen today with one day's code, opened or not.
JobEpisodes ==
  {<< [id |-> "ep1", adherenceString |-> << c >>,
       episodeStartDate |-> sqlDate(Midnight(0)), lastSeen |-> << sqlDate(Midnight(0)) >>,
       batteryLevel |-> << "80" >>, deviceStatus |-> << DEVICE_LINKED >>,
       episodeOpened |-> opened] >> : c \in {"0", "1"}, opened \in BOOLEAN}

\* keys(trackedEntityInstancesWithEpisodesMapping)
keysOf(mapping) == {te \in DOMAIN mapping : Len(mapping[te]) > 0}

\* The tracked entities with an episode id that have an event of a treatment
\* outcome program stage.
trackedEntitiesWithOutcomeOf(teis, mapping, stages) ==
  LET withOutcome == SelectSeq(teis, LAMBDA tei :
                       /\ tei.trackedEntity \in keysOf(mapping)
                       /\ \E i \in 1..Len(tei.events) : tei.events[i].programStage \in stages)
  IN [i \in 1..Len(withOutcome) |-> withOutcome[i].trackedEntity]

\* The episode ids of those tracked entities whatever the episodes are.
episodesToCloseOpenedOrNot(trackedEntitiesWithOutcome, mapping, episodes) ==
  [i \in 1..Len(trackedEntitiesWithOutcome) |-> mapping[trackedEntitiesWithOutcome[i]][1]]

\* The episode ids of those tracked entities whose episode was fetched and is
\* opened.
episodesToCloseOf(trackedEntitiesWithOutcome, mapping, episodes) ==
  SelectSeq([i \in 1..Len(trackedEntitiesWithOutcome) |->
               mapping[trackedEntitiesWithOutcome[i]][1]],
            LAMBDA episode_ : \E j \in 1..Len(episodes) :
                                episodes[j].id = episode_ /\ episodes[j].episodeOpened)

\* The event payloads of the mapping being processed.
jobEventPayloads(episodes) ==
  generateEventPayload(episodes, jobTrackedEntities, programStage,
                       trackedEntityInstancesWithEpisodesMapping,
                       [startDate |-> << >>, endDate |-> << >>], Midnight(0), 1).eventPayloads

\* The episodes to close of the mapping being processed.
jobEpisodesToClose(episodes) ==
  episodesToCloseOf(
    trackedEntitiesWithOutcomeOf(jobTrackedEntities,
      trackedEntityInstancesWithEpisodesMapping,
      programMapping[mappingCount].treatmentOutcomeProgramStages),
    trackedEntityInstancesWithEpisodesMapping, episodes)

\* The call as the job awaits it, with the episodes handed to a closing.
jobCalled(name, how) ==
  Append(jobCalls, [name |-> name, mapping |-> mappingCount, ended |-> how,
                    episodes |-> IF name = "closeWisepillEpisodes"
                                   THEN jobEpisodesToClose(jobEpisodes) ELSE << >>])

\* The catch block of startIntegrationProcess.
jobCaught(name) ==
  /\ jobCalls' = jobCalled(name, "threw")
  /\ jobStep' = "ended"
  /\ jobEnded' = "caught"

\* The head of the loop over the program mappings, with the check that
\* there is any and the check of the shape of the next one.
NextMapping ==
  /\ jobStep = "mapping"
  /\ IF Len(programMapping) <= 0
       THEN jobStep' = "ended" /\ jobEnded' = "noMapping"
       ELSE IF mappingCount > Len(programMapping)
         THEN jobStep' = "ended" /\ jobEnded' = "done"
         ELSE IF Len(programMapping[mappingCount].attributes) = 0
           THEN jobStep' = "ended" /\ jobEnded' = "break"
           ELSE jobStep' = "query" /\ UNCHANGED jobEnded
  /\ UNCHANGED << programMapping, mappingCount, jobTrackedEntities, jobEpisodes, jobCalls >>

\* await getDhis2TrackedEntityInstancesWithEvents
QueryTrackedEntities ==
  /\ jobStep = "query"
  /\ \/ /\ jobCaught("getDhis2TrackedEntityInstancesWithEvents")
        /\ UNCHANGED jobTrackedEntities
     \/ /\ jobCalls' = jobCalled("getDhis2TrackedEntityInstancesWithEvents", "ok")
        /\ jobTrackedEntities' \in JobTrackedEntityInstances
        /\ jobStep' = "fetch"
        /\ UNCHANGED jobEnded
  /\ UNCHANGED << programMapping, mappingCount, jobEpisodes >>

\* What follows the upload: the episodes to close are closed if there is any,
\* else the next mapping is taken.
afterUpload(episodes) ==
  IF Len(jobEpisodesToClose(episodes)) > 0
    THEN jobStep' = "close" /\ UNCHANGED mappingCount
    ELSE jobStep' = "mapping" /\ mappingCount' = mappingCount + 1

\* await getWisepillEpisodeValues and the generation of the event payloads
FetchEpisodes ==
  /\ jobStep = "fetch"
  /\ \/ /\ jobCaught("getWisepillEpisodeValues")
        /\ UNCHANGED << jobEpisodes, mappingCount >>
     \/ /\ jobCalls' = jobCalled("getWisepillEpisodeValues", "ok")
        /\ jobEpisodes' \in JobEpisodes
        /\ IF Len(jobEventPayloads(jobEpisodes')) > 0
             THEN jobStep' = "upload" /\ UNCHANGED mappingCount
             ELSE afterUpload(jobEpisodes')
        /\ UNCHANGED jobEnded
  /\ UNCHANGED << programMapping, jobTrackedEntities >>

\* await uploadDhis2Events
UploadEvents ==
  /\ jobStep = "upload"
  /\ \/ /\ jobCaught("uploadDhis2Events")
        /\ UNCHANGED mappingCount
     \/ /\ jobCalls' = jobCalled("uploadDhis2Events", "ok")
        /\ afterUpload(jobEpisodes)
        /\ UNCHANGED jobEnded
  /\ UNCHANGED << programMapping, jobTrackedEntities, jobEpisodes >>

\* await closeWisepillEpisodes: the registry is asked to close the episodes.
CloseEpisodes ==
  /\ jobStep = "close"
  /\ \/ /\ jobCaught("closeWisepillEpisodes")
        /\ UNCHANGED mappingCount
     \/ /\ jobCalls' = jobCalled("closeWisepillEpisodes", "ok")
        /\ jobStep' = "mapping"
        /\ mappingCount' = mappingCount + 1
        /\ UNCHANGED jobEnded
  /\ UNCHANGED << programMapping, jobTrackedEntities, jobEpisodes >>

\* ----------------------------------------------- device details: calls
\* {...a, ...b}: the keys of both, b's value where both have the key.
spread(a, b) ==
  [k \in DOMAIN a \cup DOMAIN b |-> IF k \in DOMAIN b THEN b[k] ELSE a[k]]

\* The answers of the registry to GET episodes/getEpisodes: the client
\* throws, or the envelope reports a failure, no record or one episode.
EpisodeAnswers ==
  {<< >>}
    \cup {<< [status |-> 200, data |-> [ResultCode |-> 100, Result |-> "No episodes found",
                                       records |-> << >>]] >>}
    \cup {<< [status |-> 200, data |-> [ResultCode |-> 0, Result |-> "OK",
                                       records |-> << >>]] >>}
    \cup {<< [status |-> 200, data |-> [ResultCode |-> 0, Result |-> "OK", records |->
                << [episode_id |-> "ep1", device_imei |-> "imei", last_seen |-> seen] >>]] >>
           : seen \in {"episode seen today", "episode seen yesterday"}}

\* The answers of the registry to GET devices/getDevices.php: the client
\* throws, or the envelope reports a failure, no record or one device.
DeviceAnswers ==
  {<< >>}
    \cup {<< [status |-> 200, data |-> [ResultCode |-> 101, Result |-> "Device not found",
                                       records |-> << >>]] >>}
    \cup {<< [status |-> 200, data |-> [ResultCode |-> 0, Result |-> "OK",
                                       records |-> << >>]] >>}
    \cup {<< [status |-> 200, data |-> [ResultCode |-> 0, Result |-> "OK", records |->
                << [device_imei |-> "imei", device_status |-> s,
                    last_seen |-> "device seen today"] >>]] >>
           : s \in {"1", "2", "3", "9"}}

\* The values Promise.all would resolve to if it listed them as they settled.
allValuesAsSettled(order, episodeResponse, deviceDetailsResponse) ==
  [i \in 1..2 |-> IF order[i] = "episodes" THEN episodeResponse ELSE deviceDetailsResponse]

\* The values Promise.all resolves to: those of the promises in the order
\* they were given, however they settled.
allValues(order, episodeResponse, deviceDetailsResponse) ==
  << episodeResponse, deviceDetailsResponse >>

\* const [x] = records followed by {...data, ...x}: nothing is spread when
\* there is no record.
spreadFirst(data, records) ==
  IF Len(records) = 0 THEN data ELSE spread(data, records[1])

\* The body of getDeviceDetailsFromWisepillAPI after the await.
mergedDeviceDetails(episodeResponse, deviceDetailsResponse) ==
  LET episodeData == episodeResponse.data
      deviceDetailsData == deviceDetailsResponse.data
      status == deviceDetailsResponse.status
  IN IF deviceDetailsData.ResultCode = 0
       THEN LET data == spreadFirst(<< >>, deviceDetailsData.records)
            IN IF episodeData.ResultCode = 0
                 THEN [data |-> spreadFirst(data, episodeData.records), status |-> status]
                 ELSE [data |-> spread(data, [Result |-> episodeData.Result]),
                       status |-> status]
       ELSE [data |-> [Result |-> deviceDetailsData.Result,
                       ResultCode |-> deviceDetailsData.ResultCode],
             status |-> status]

\* The GET of the episodes completes.
EpisodesRespond ==
  /\ detailsState # "idle"
  /\ \A i \in 1..Len(settled) : settled[i] # "episodes"
  /\ settled' = Append(settled, "episodes")
  /\ UNCHANGED << detailsState, episodeAnswer, deviceAnswer, detailsResult >>

\* The GET of the device details completes.
DeviceDetailsRespond ==
  /\ detailsState # "idle"
  /\ \A i \in 1..Len(settled) : settled[i] # "deviceDetails"
  /\ settled' = Append(settled, "deviceDetails")
  /\ UNCHANGED << detailsState, episodeAnswer, deviceAnswer, detailsResult >>

answerOf(get) == IF get = "episodes" THEN episodeAnswer ELSE deviceAnswer

\* Promise.all rejects as soon as one of the GETs has thrown, and the
\* function raises.
DetailsRaise ==
  /\ detailsState = "awaiting"
  /\ \E i \in 1..Len(settled) : answerOf(settled[i]) = << >>
  /\ detailsState' = "raised"
  /\ UNCHANGED << episodeAnswer, deviceAnswer, settled, detailsResult >>

\* Promise.all resolves once both GETs have been answered, and the function
\* merges the two answers and returns.
MergeDetails ==
  /\ detailsState = "awaiting"
  /\ Len(settled) = 2
  /\ \A i \in 1..Len(settled) : answerOf(settled[i]) # << >>
  /\ \E values \in {allValues(settled, episodeAnswer[1], deviceAnswer[1])} :
       detailsResult' = << mergedDeviceDetails(values[1], values[2]) >>
  /\ detailsState' = "returned"
  /\ UNCHANGED << episodeAnswer, deviceAnswer, settled >>

\* ------------------------------------------------------- alarms: calls
\* The day masks a request carries: the strings of 7 bits, strings of 7
\* characters one of which is no bit, strings of 6 bits and the empty string.
DayMasks == {d \in BinaryStrings : Len(d) \in {0, HighestBit, HighestBit + 1}}

AlarmStatuses == {<< >>, << 0 >>, << 1 >>, << 2 >>}

\* The bodies of the requests to POST /alarms.
AlarmBodies ==
  {[imei |-> imei_, alarm |-> alarm, alarmStatus |-> alarmStatus, refillAlarm |-> refillAlarm, refillAlarmStatus |-> refillAlarmStatus, days |-> days] :
     imei_ \in {<< >>, << "imei" >>}, alarm \in {<< >>, << "08:00" >>}, alarmStatus \in AlarmStatuses,
     refillAlarm \in {<< >>, << "2024-01-01 08:00:00" >>}, refillAlarmStatus \in AlarmStatuses,
     days \in {<< >>} \cup {<< d >> : d \in DayMasks}}

\* The pattern with the character class left out: any 7 characters.
daysPatternAnyCharacter(days) == Len(days) = HighestBit + 1

\* The pattern /^[0-1]{7}$/ of days.
daysPattern(days) == Len(days) = HighestBit + 1 /\ \A i \in 1..Len(days) : days[i] \in Bits

\* addAlarmSchema.validate(body) reports no error: imei is required, days is
\* absent, null or matches the pattern; the statuses are integers and the
\* alarms strings in every body above.
addAlarmSchema(body) ==
  /\ body.imei # << >>
  /\ body.days = << >> \/ daysPattern(body.days[1])

validateAlarmStatusValue(alarmStatus) == alarmStatus \in {<< 0 >>, << 1 >>}

\* value ?? 1
orOne(value) == IF value = << >> THEN 1 ELSE value[1]

\* The PUT of devices/setAlarm: alarm_time and alarm_days are sent only with
\* an alarm, alarm_days being 127 when the request has no days.
setAlarmPut(body) ==
  [put |-> "devices/setAlarm", status |-> orOne(body.alarmStatus), device_imei |-> body.imei[1],
   time |-> body.alarm,
   alarm_days |-> IF body.alarm = << >> THEN << >>
                  ELSE IF body.days # << >> /\ body.days[1] # << >> THEN << binaryToDecimal(body.days[1]) >>
                  ELSE << MaxDecimalValue >>,
   result |-> "pending"]

\* The PUT of devices/setRefillAlarm.
setRefillAlarmPut(body) ==
  [put |-> "devices/setRefillAlarm", status |-> orOne(body.refillAlarmStatus), device_imei |-> body.imei[1],
   time |-> body.refillAlarm, alarm_days |-> << >>, result |-> "pending"]

alarmAnswer(status, message) == [status |-> status, message |-> message]

\* The PUTs with the result of the last one filled in.
putsSettled(result) == [alarmPuts EXCEPT ![Len(alarmPuts)].result = result]

\* The end of the handler, after both alarms.
noAlarmOrSuccess(puts) ==
  /\ alarmPuts' = puts
  /\ alarmStep' = "answered"
  /\ alarmResponse' = IF alarmBody.refillAlarm = << >> /\ alarmBody.alarm = << >>
                        THEN << alarmAnswer(409, "No alarm was specified") >>
                        ELSE << alarmAnswer(201, "Alarm set successfully") >>

\* The handler from the refill alarm on, up to its next await or its answer.
refillAlarmToBeSet(puts) ==
  IF alarmBody.refillAlarm # << >> \/ validateAlarmStatusValue(alarmBody.refillAlarmStatus)
    THEN /\ alarmPuts' = Append(puts, setRefillAlarmPut(alarmBody))
         /\ alarmStep' = "setRefillAlarm"
         /\ alarmResponse' = alarmResponse
    ELSE noAlarmOrSuccess(puts)

\* The handler of POST /alarms up to its first await or its answer.
PostAlarms ==
  /\ alarmStep = "received"
  /\ IF ~addAlarmSchema(alarmBody)
       THEN /\ alarmStep' = "answered"
            /\ alarmResponse' = << alarmAnswer(400, "bodyValidationError") >>
            /\ alarmPuts' = alarmPuts
       ELSE IF alarmBody.alarm # << >> \/ validateAlarmStatusValue(alarmBody.alarmStatus)
         THEN /\ alarmPuts' = Append(alarmPuts, setAlarmPut(alarmBody))
              /\ alarmStep' = "setAlarm"
              /\ alarmResponse' = alarmResponse
         ELSE refillAlarmToBeSet(alarmPuts)
  /\ UNCHANGED alarmBody

\* What a PUT to the registry does: it answers with ResultCode 0, with a
\* ResultCode of 100 or more, or throws.
PutResults == {"succeeded", "failed", "threw"}

\* The PUT of devices/setAlarm completes and the handler goes on.
SetAlarm ==
  /\ alarmStep = "setAlarm"
  /\ \E result \in PutResults :
       CASE result = "threw" ->
              /\ alarmPuts' = putsSettled(result)
              /\ alarmStep' = "raised"
              /\ alarmResponse' = alarmResponse
         [] result = "failed" ->
              /\ alarmPuts' = putsSettled(result)
              /\ alarmStep' = "answered"
              /\ alarmResponse' = << alarmAnswer(409, "Alarm could not be set") >>
         [] OTHER -> refillAlarmToBeSet(putsSettled(result))
  /\ UNCHANGED alarmBody

\* The PUT of devices/setRefillAlarm completes and the handler goes on.
SetRefillAlarm ==
  /\ alarmStep = "setRefillAlarm"
  /\ \E result \in PutResults :
       CASE result = "threw" ->
              /\ alarmPuts' = putsSettled(result)
              /\ alarmStep' = "raised"
              /\ alarmResponse' = alarmResponse
         [] result = "failed" ->
              /\ alarmPuts' = putsSettled(result)
              /\ alarmStep' = "answered"
              /\ alarmResponse' = << alarmAnswer(409, "Refill alarm could not be set") >>
         [] OTHER -> noAlarmOrSuccess(putsSettled(result))
  /\ UNCHANGED alarmBody

\* ------------------------------------------------------- specifications
vars == << reconVars, assignVars, helperVars, serviceVars >>

Init == ReconInit /\ AssignIdle /\ HelperIdle /\ ServicesIdle

Next ==
  \/ StartIntegration /\ UNCHANGED << assignVars, helperVars, serviceVars >>
  \/ DeviceReport /\ UNCHANGED << assignVars, helperVars, serviceVars >>

Spec == Init /\ [][Next]_vars

AssignNext ==
  \/ FindDevice
  \/ GetPatientDetails
  \/ UnassignPreviousLinkedEpisodes
  \/ CreateEpisode
  \/ UnlinkEpisode
  \/ AssignDevice
  \/ UpdateDATEnrollmentStatus
  \/ SetTimezone

AssignSpec == AssignInit /\ [][AssignNext]_vars

\* No run of the integration has started and the registry holds no episode.
ReconIdle ==
  /\ now = 0
  /\ episode = unassignedEpisode
  /\ remote = << >>
  /\ nextUid = 1
  /\ runs = 0
  /\ payloads = << >>
  /\ fetched = << >>
  /\ lastRun = "none"

\* uploadDhis2Events called on its own with a list of events.
UploadInit ==
  /\ uploadState = "uploading"
  /\ uploadEvents \in EventLists
  /\ page = 1
  /\ posts = << >>
  /\ FetchIdle
  /\ JobIdle
  /\ DetailsIdle
  /\ AlarmIdle
  /\ ReconIdle
  /\ AssignIdle
  /\ HelperIdle

UploadNext ==
  \/ PostPage /\ UNCHANGED << reconVars, assignVars, helperVars, fetchVars, jobVars, detailsVars, alarmVars >>
  \/ UploadReturns /\ UNCHANGED << reconVars, assignVars, helperVars, fetchVars, jobVars, detailsVars, alarmVars >>

UploadSpec == UploadInit /\ [][UploadNext]_vars

\* getDeviceDetailsFromWisepillAPI called on its own: both GETs are sent.
DetailsInit ==
  /\ detailsState = "awaiting"
  /\ episodeAnswer \in EpisodeAnswers
  /\ deviceAnswer \in DeviceAnswers
  /\ settled = << >>
  /\ detailsResult = << >>
  /\ UploadIdle
  /\ FetchIdle
  /\ JobIdle
  /\ AlarmIdle
  /\ ReconIdle
  /\ AssignIdle
  /\ HelperIdle

otherThanDetails == << reconVars, assignVars, helperVars, uploadVars, fetchVars, jobVars, alarmVars >>

DetailsNext ==
  \/ EpisodesRespond /\ UNCHANGED otherThanDetails
  \/ DeviceDetailsRespond /\ UNCHANGED otherThanDetails
  \/ DetailsRaise /\ UNCHANGED otherThanDetails
  \/ MergeDetails /\ UNCHANGED otherThanDetails

DetailsSpec == DetailsInit /\ [][DetailsNext]_vars

\* startIntegrationProcess followed mapping by mapping, the data store read.
JobInit ==
  /\ jobStep = "mapping"
  /\ jobEnded = "none"
  /\ programMapping \in ProgramMappings
  /\ mappingCount = 1
  /\ jobTrackedEntities = << >>
  /\ jobEpisodes = << >>
  /\ jobCalls = << >>
  /\ UploadIdle
  /\ FetchIdle
  /\ DetailsIdle
  /\ AlarmIdle
  /\ ReconIdle
  /\ AssignIdle
  /\ HelperIdle

otherThanJob == << reconVars, assignVars, helperVars, uploadVars, fetchVars, detailsVars, alarmVars >>

JobNext ==
  \/ NextMapping /\ UNCHANGED otherThanJob
  \/ QueryTrackedEntities /\ UNCHANGED otherThanJob
  \/ FetchEpisodes /\ UNCHANGED otherThanJob
  \/ UploadEvents /\ UNCHANGED otherThanJob
  \/ CloseEpisodes /\ UNCHANGED otherThanJob

JobSpec == JobInit /\ [][JobNext]_vars

\* getWisepillEpisodeValues called on its own with a list of episode ids.
FetchInit ==
  /\ fetchState = "fetching"
  /\ episodeIds \in EpisodeIdLists
  /\ fetchCount = 0
  /\ fetchStep = "episodes"
  /\ batchEpisodes = << >>
  /\ sanitizedEpisodes = << >>
  /\ gets = << >>
  /\ UploadIdle
  /\ JobIdle
  /\ DetailsIdle
  /\ AlarmIdle
  /\ ReconIdle
  /\ AssignIdle
  /\ HelperIdle

FetchNext ==
  \/ GetEpisodes /\ UNCHANGED << reconVars, assignVars, helperVars, uploadVars, jobVars, detailsVars, alarmVars >>
  \/ GetDeviceDetail /\ UNCHANGED << reconVars, assignVars, helperVars, uploadVars, jobVars, detailsVars, alarmVars >>
  \/ FetchReturns /\ UNCHANGED << reconVars, assignVars, helperVars, uploadVars, jobVars, detailsVars, alarmVars >>

FetchSpec == FetchInit /\ [][FetchNext]_vars

\* A request to POST /alarms has arrived; binaryToDecimal is also called on
\* its own with the day mask of the request.
AlarmInit ==
  /\ alarmStep = "received"
  /\ alarmBody \in AlarmBodies
  /\ alarmPuts = << >>
  /\ alarmResponse = << >>
  /\ helperCall = (IF alarmBody.days = << >> THEN [fn |-> "none", arg |-> << >>] ELSE [fn |-> "binaryToDecimal", arg |-> alarmBody.days[1]])
  /\ helperResult = << >>
  /\ UploadIdle
  /\ FetchIdle
  /\ JobIdle
  /\ DetailsIdle
  /\ ReconIdle
  /\ AssignIdle

otherThanAlarm == << reconVars, assignVars, helperVars, uploadVars, fetchVars, jobVars, detailsVars >>

AlarmNext ==
  \/ PostAlarms /\ UNCHANGED otherThanAlarm
  \/ SetAlarm /\ UNCHANGED otherThanAlarm
  \/ SetRefillAlarm /\ UNCHANGED otherThanAlarm
  \/ BinaryToDecimal /\ UNCHANGED << reconVars, assignVars, serviceVars >>

AlarmSpec == AlarmInit /\ [][AlarmNext]_vars

\* No run of the integration and no assignment request while a helper is
\* called on its own.
HelperInit ==
  /\ helperCall \in HelperCalls
  /\ helperResult = << >>
  /\ AssignIdle
  /\ ServicesIdle
  /\ now = 0
  /\ episode = unassignedEpisode
  /\ remote = << >>
  /\ nextUid = 1
  /\ runs = 0
  /\ payloads = << >>
  /\ fetched = << >>
  /\ lastRun = "none"

HelperNext ==
  \/ DecimalToBinary /\ UNCHANGED << reconVars, assignVars, serviceVars >>
  \/ BinaryToDecimal /\ UNCHANGED << reconVars, assignVars, serviceVars >>
  \/ SanitizeAdherenceCode /\ UNCHANGED << reconVars, assignVars, serviceVars >>
  \/ GenerateEventPayload /\ UNCHANGED << reconVars, assignVars, serviceVars >>

HelperSpec == HelperInit /\ [][HelperNext]_vars

\* ------------------------------------------- reconciliation: properties
dayOfEvent(e) == DayOf(fromISO(e.occurredAt))
signalOf(e) == valueOf(findDataValue(e.dataValues, DEVICE_SIGNAL_DATA_ELEMENT))
dosageOf(e) == valueOf(findDataValue(e.dataValues, DOSAGE_TIME_DATA_ELEMENT))
valuesExcept(e, excluded) ==
  SelectSeq(e.dataValues, LAMBDA dv : dv.dataElement \notin excluded)

\* C1: the tracker never holds two events of one tracked entity, program
\* stage and calendar day, and no run emits two payloads for one tracked
\* entity and one calendar day.
OneEventPerDay ==
  /\ \A i, j \in 1..Len(remote) :
       (i # j /\ remote[i].trackedEntity = remote[j].trackedEntity
              /\ remote[i].programStage = remote[j].programStage)
         => dayOfEvent(remote[i]) # dayOfEvent(remote[j])
  /\ \A i, j \in 1..Len(payloads) :
       (i # j /\ payloads[i].trackedEntity = payloads[j].trackedEntity)
         => dayOfEvent(payloads[i]) # dayOfEvent(payloads[j])

\* The payloads of a second run with window d, started on the same device
\* state once a first run with window d has uploaded its payloads.
secondRun(d) ==
  LET first == generateEventPayload(<< episode >>, trackedEntityInstancesOf(remote),
                 programStage, trackedEntityInstancesWithEpisodesMapping, d, now, nextUid)
      applied == IF Len(first.eventPayloads) > 0
                   THEN uploadDhis2Events(remote, first.eventPayloads) ELSE remote
  IN generateEventPayload(<< episode >>, trackedEntityInstancesOf(applied),
       programStage, trackedEntityInstancesWithEpisodesMapping, d, now,
       first.uid).eventPayloads

\* C2: from every device state and tracker state, a run whose payloads are
\* uploaded and that is then started again on the same device state emits no
\* payload the second time.
RunTwiceEmitsNothing == \A d \in Durations : secondRun(d) = << >>

\* The dated data values a run on the present device state hands to
\* getDHIS2EventPayload: those of the no-window path and those of the window
\* path.
ComputedDataValues ==
  LET adherences == split(episode.adherenceString)
      adherenceEvents == adherenceEventsOf(episode)
      episodeAdherences == getSanitizedAdherence(adherences, episode.episodeStartDate)
  IN (IF Len(episode.lastSeen) = 0 THEN {}
      ELSE {[date |-> adherenceEvents[i].eventDate,
             dataValues |-> adherenceEvents[i].dataValues] : i \in 1..Len(adherences)})
     \cup
     {[date |-> episodeAdherences[i].date,
       dataValues |-> generateDataValuesFromAdherenceMapping(
                        episodeAdherences[i].adherence, episodeAdherences[i].date,
                        << >>, << >>)] : i \in 1..Len(adherences)}

\* The data values of e other than the signal and the dosage time.
otherValuesOf(e) ==
  valuesExcept(e, {DEVICE_SIGNAL_DATA_ELEMENT, DOSAGE_TIME_DATA_ELEMENT})

\* P holds of every merge of computed data values into the stored event of
\* their day whose signal differs from the computed one: of the stored event,
\* the computed data values and what getDHIS2EventPayload emits.
everySignalMerge(P(_, _, _)) ==
  \A events \in {trackedEntityInstancesOf(remote)[1].events} :
    \A in \in ComputedDataValues :
      \A existing \in {existingEventOf(events, in.date)} :
        (/\ Len(existing) > 0
         /\ signalOf(existing[1]) # signalOf(in))
          => P(existing[1], in,
               getDHIS2EventPayload(programStage, TrackedEntities[1], in.date,
                                    events, in.dataValues, nextUid))

everyUnchangedSignal(P(_, _, _)) ==
  \A events \in {trackedEntityInstancesOf(remote)[1].events} :
    \A in \in ComputedDataValues :
      \A existing \in {existingEventOf(events, in.date)} :
        (/\ Len(existing) > 0
         /\ signalOf(existing[1]) = signalOf(in))
          => P(existing[1], in,
               getDHIS2EventPayload(programStage, TrackedEntities[1], in.date,
                                    events, in.dataValues, nextUid))

eventsOfTheDay(store, e) ==
  SelectSeq(store, LAMBDA x : /\ x.trackedEntity = e.trackedEntity
                              /\ x.programStage = e.programStage
                              /\ dayOfEvent(x) = dayOfEvent(e))

\* C4: a payload for a tracked entity and day that has a stored event carries
\* the id of a stored event of that day, a payload for any other day carries
\* an id the tracker does not hold, and so no stored event of the payload's
\* tracked entity and day has another id than the payload.
EventIdsStable ==
  /\ \A i \in 1..Len(payloads) :
       \A sameDay \in {eventsOfTheDay(fetched, payloads[i])} :
         IF Len(sameDay) > 0
           THEN \E j \in 1..Len(sameDay) : sameDay[j].event = payloads[i].event
           ELSE \A j \in 1..Len(fetched) : fetched[j].event # payloads[i].event
  /\ \A i \in 1..Len(payloads) :
       \A sameDay \in {eventsOfTheDay(remote, payloads[i])} :
         \A j \in 1..Len(sameDay) : sameDay[j].event = payloads[i].event

\* C5: a run without a window emits nothing for a tracked entity whose
\* episode was last seen more than a day ago.
StaleDeviceEmitsNothing ==
  (/\ lastRun = "noWindow"
   /\ Len(episode.lastSeen) > 0
   /\ now - fromSQL(episode.lastSeen[1]) > TicksPerDay)
    => \A i \in 1..Len(payloads) : payloads[i].trackedEntity # TrackedEntities[1]

\* The length of the trailing run of codes that are not "None received".
RECURSIVE trailingReceived(_)
trailingReceived(codes) ==
  IF Len(codes) = 0 THEN 0
  ELSE IF sanitizeAdherenceCode(codes[Len(codes)]) = NONE_RECEIVED THEN 0
  ELSE 1 + trailingReceived(SubSeq(codes, 1, Len(codes) - 1))

\* C6: a run without a window emits no event with signal "None" and at most
\* one event for each day of the trailing run of received days; with no
\* stored events it creates one event for each of those days, the first of
\* them carrying the signal of the last code.
EmitsOnlyTrailingReceivedDays ==
  lastRun = "noWindow" =>
    /\ \A i \in 1..Len(payloads) : signalOf(payloads[i]) # << NONE_RECEIVED >>
    /\ Len(payloads) <= trailingReceived(split(episode.adherenceString))
    /\ (fetched = << >> /\ Len(episode.lastSeen) > 0) =>
         /\ Len(payloads) = trailingReceived(split(episode.adherenceString))
         /\ Len(payloads) > 0 =>
              signalOf(payloads[1]) =
                << sanitizeAdherenceCode(episode.adherenceString[Len(episode.adherenceString)]) >>

\* The expansion of the present episode's adherence string by the window
\* path and, where the episode has a lastSeen, by the no-window path.
windowExpansion ==
  getSanitizedAdherence(split(episode.adherenceString), episode.episodeStartDate)
noWindowExpansion ==
  IF Len(episode.lastSeen) = 0 THEN << >>
  ELSE episodeAdherencesOf(split(episode.adherenceString), episode.episodeStartDate,
                           episode.lastSeen[1])

\* The i-th pair of the expansion carries the i-th code and is dated i - 1
\* calendar days after the episode start.
datedFromStart(expansion, i) ==
  /\ expansion[i].adherence = split(episode.adherenceString)[i]
  /\ DayOf(fromISO(expansion[i].date))
       = DayOf(fromSQL(episode.episodeStartDate)) + (i - 1)

namesOf(log) == [i \in 1..Len(log) |-> log[i].name]

contains(message, part) == \E i \in 1..Len(message) : message[i] = part

\* The requests that change the registry or the tracker.
MutatingCalls ==
  {"unassignDevice(device)", "unassignDevice(episode)", "createEpisode",
   "assignDevice", "closeEpisode", "setTimezone", "uploadDhis2Events"}

\* The handler has returned for an Available device and a patient without an
\* episode id, every request it sent having succeeded.
happyPath ==
  /\ pc = "done"
  /\ deviceStatus = << availableDeviceStatus >>
  /\ Len(patient) > 0
  /\ Len(patient[1].episodeId) = 0
  /\ \A i \in 1..Len(calls) : calls[i].ended = "ok"

\* The one response sent is the success result, its message naming the
\* device and the patient.
assignedAnswer ==
  /\ Len(responses) = 1
  /\ responses[1].statusCode = 200
  /\ "status" \in DOMAIN responses[1].body
  /\ responses[1].body.status = 201
  /\ contains(responses[1].body.message, IMEI)
  /\ contains(responses[1].body.message, PatientId)

LinkedWithoutForceConflicts ==
  (/\ pc = "done"
   /\ deviceStatus = << assignedDeviceStatus >>
   /\ force # << TRUE >>)
    => /\ Len(responses) = 1
       /\ responses[1].statusCode = 409
       /\ \A i \in 1..Len(calls) : calls[i].name \notin MutatingCalls

\* The terminal status of a response: the status its body carries, or else
\* its HTTP status.
outcomeOf(response) ==
  IF "status" \in DOMAIN response.body THEN response.body.status ELSE response.statusCode

\* C10: once the handler has returned, exactly one response has been sent and
\* it is NotFound (404), Conflict (409) or Assigned (201).
EndsInOneTerminalOutcome ==
  pc = "done" =>
    /\ Len(responses) = 1
    /\ outcomeOf(responses[1]) \in {404, 409, 201}

\* The call of the given name was sent and ended as given.
ended(name, how) == \E i \in 1..Len(calls) : calls[i].name = name /\ calls[i].ended = how

\* C11: a request whose assignDevice call returned result code 0 and whose
\* later steps went through is answered with HTTP status 201.
SuccessfulAssignmentAnswers201 ==
  (/\ pc = "done"
   /\ ended("assignDevice", "ok")
   /\ ended("setTimezone", "ok"))
    => /\ Len(responses) = 1
       /\ responses[1].statusCode = 201

\* The positions in the log of the calls of the given name.
callsOf(name) == {i \in 1..Len(calls) : calls[i].name = name}

\* C14: once the device is found, a request one of whose later steps failed
\* ends in one conflict or error response, never in the success result.
FailedStepEndsInError ==
  (/\ pc = "done"
   /\ \E i \in 2..Len(calls) : calls[i].ended # "ok")
    => /\ Len(responses) = 1
       /\ responses[1].statusCode >= 400
       /\ outcomeOf(responses[1]) # 201

\* C15: for a Linked device and force = true, every createEpisode and
\* assignDevice call comes after the unassignDevice call for the device has
\* returned, and assignDevice is sent at most once.
ForcedReassignmentUnassignsFirst ==
  (deviceStatus = << assignedDeviceStatus >> /\ force = << TRUE >>)
    => /\ \A i \in callsOf("createEpisode") \cup callsOf("assignDevice") :
            \E j \in callsOf("unassignDevice(device)") : j < i
       /\ Cardinality(callsOf("assignDevice")) <= 1

\* A forced request for a Linked device has unassigned it and assigned it to
\* the patient.
ForcedReassignmentDone ==
  /\ pc = "done"
  /\ deviceStatus = << assignedDeviceStatus >>
  /\ force = << TRUE >>
  /\ ended("unassignDevice(device)", "ok")
  /\ ended("createEpisode", "ok")
  /\ ended("assignDevice", "ok")
  /\ Len(responses) = 1
  /\ outcomeOf(responses[1]) = 201

\* C16: for a device found Damaged or Lost (3) or Unavailable (9) the handler
\* answers 409 and sends no request that changes the registry or the
\* tracker, whatever the patient lookup returns.
DamagedOrUnavailableConflicts ==
  (/\ pc = "done"
   /\ deviceStatus \in {<< damagedDeviceStatus >>, << unavailableDeviceStatus >>})
    => /\ Len(responses) = 1
       /\ responses[1].statusCode = 409
       /\ \A i \in 1..Len(calls) : calls[i].name \notin MutatingCalls

\* C17: a request whose patient lookup resolves to no patient is answered
\* 404 and sends no request that changes the registry.
UnresolvedPatientNotFound ==
  (/\ pc = "done"
   /\ ended("getPatientDetailsFromDHIS2", "failed"))
    => /\ Len(responses) = 1
       /\ responses[1].statusCode = 404
       /\ \A i \in 1..Len(calls) : calls[i].name \notin MutatingCalls

\* The handler has come to the step that ensures the patient's episode: the
\* patient is found and the device is Available, or Linked with force = true
\* and its unassignment has returned.
ensuresEpisode ==
  /\ ended("getPatientDetailsFromDHIS2", "ok")
  /\ \/ deviceStatus = << availableDeviceStatus >>
     \/ /\ deviceStatus = << assignedDeviceStatus >>
        /\ force = << TRUE >>
        /\ \E i \in callsOf("unassignDevice(device)") : calls[i].ended # "threw"

\* C18: createEpisode is sent at most once, only for a patient without an
\* episode id, and for every such patient once the handler ensures the
\* episode; when it yields no episode id the handler answers 409 and sends
\* no assignDevice.
EpisodeEnsuredOnce ==
  /\ Cardinality(callsOf("createEpisode")) <= 1
  /\ callsOf("createEpisode") # {}
       => Len(patient) = 1 /\ Len(patient[1].episodeId) = 0
  /\ (ensuresEpisode /\ Len(patient[1].episodeId) = 0 /\ pc # "createEpisode")
       => callsOf("createEpisode") # {}
  /\ ended("createEpisode", "failed")
       => /\ pc = "done"
          /\ Len(responses) = 1
          /\ responses[1].statusCode = 409
          /\ callsOf("assignDevice") = {}

\* The creation of the episode has yielded no episode id and the handler has
\* answered.
EpisodeCreationFailed ==
  /\ ended("createEpisode", "failed")
  /\ Len(responses) = 1
  /\ Len(episodeId) = 0

\* C19: the upload of the enrollment event is sent at most once in a request,
\* exactly once when assignDevice returned result code 0, and neither it nor
\* setTimezone is sent before assignDevice has returned result code 0; the
\* event the tracker then holds is ACTIVE with device signal "Enrollment".
EnrollmentUploadedOncePerAssignment ==
  /\ Cardinality(callsOf("uploadDhis2Events")) <= 1
  /\ \A i \in callsOf("uploadDhis2Events") \cup callsOf("setTimezone") :
       \E j \in callsOf("assignDevice") : j < i /\ calls[j].ended = "ok"
  /\ (ended("assignDevice", "ok") /\ pc \in {"setTimezone", "done"})
       => Cardinality(callsOf("uploadDhis2Events")) = 1
  /\ Len(remote) = (IF ended("uploadDhis2Events", "ok") THEN 1 ELSE 0)
  /\ \A i \in 1..Len(remote) :
       /\ remote[i].status = "ACTIVE"
       /\ signalOf(remote[i]) = << ENROLLMENT_SIGNAL >>

\* A forced reassignment has stored its enrollment event, and a request whose
\* assignDevice was refused would have stored none.
EnrollmentStoredAfterReassignment ==
  /\ pc = "done"
  /\ deviceStatus = << assignedDeviceStatus >>
  /\ ended("assignDevice", "ok")
  /\ Len(remote) = 1
  /\ remote[1].status = "ACTIVE"

\* ------------------------------------------------ pure helpers: properties
\* The number a string of bits denotes as a binary numeral, its rightmost
\* character being bit 0.
RECURSIVE numeralValue(_)
numeralValue(bits) ==
  IF Len(bits) = 0 THEN 0
  ELSE 2 * numeralValue(SubSeq(bits, 1, Len(bits) - 1))
         + (IF bits[Len(bits)] = "1" THEN 1 ELSE 0)

returned(fn) == helperCall.fn = fn /\ Len(helperResult) = 1

\* C12: for every n in 0..127 decimalToBinary(n) is a string of 7 bits that
\* is the binary numeral of n and that binaryToDecimal takes back to n;
\* binaryToDecimal of a string of 7 bits is the number it denotes, 127 for
\* "1111111" and 85 for "1010101".
DayMaskRoundTrips ==
  /\ (returned("decimalToBinary") /\ helperCall.arg \in 0..MaxDecimalValue)
       => /\ Len(helperResult[1]) = HighestBit + 1
          /\ \A i \in 1..Len(helperResult[1]) : helperResult[1][i] \in Bits
          /\ numeralValue(helperResult[1]) = helperCall.arg
          /\ binaryToDecimal(helperResult[1]) = helperCall.arg
  /\ (returned("binaryToDecimal") /\ helperCall.arg \in [1..(HighestBit + 1) -> Bits])
       => helperResult[1] = numeralValue(helperCall.arg)
  /\ (returned("binaryToDecimal") /\ helperCall.arg = << "1", "1", "1", "1", "1", "1", "1" >>)
       => helperResult[1] = 127
  /\ (returned("binaryToDecimal") /\ helperCall.arg = << "1", "0", "1", "0", "1", "0", "1" >>)
       => helperResult[1] = 85

\* decimalToBinary has returned the day mask of 84, which reads differently
\* from either end.
DayMaskEncoded ==
  /\ returned("decimalToBinary")
  /\ helperCall.arg = 84
  /\ helperResult[1] = << "1", "0", "1", "0", "1", "0", "0" >>

\* C13: sanitizeAdherenceCode returns for every string: "None" for "0",
\* "Once" for "1", "Multiple" for "2", "Heartbeat" for "9" and "None" for any
\* other string, the empty one and those of several characters included.
AdherenceCodeClassified ==
  /\ \A code \in AdherenceCodes :
       sanitizeAdherenceCode(code)
         \in {NONE_RECEIVED, RECEIVED_ONCE, RECEIVED_MULTIPLE, HEARTBEAT_RECEIVED}
  /\ returned("sanitizeAdherenceCode")
       => helperResult[1] =
            CASE helperCall.arg = "0" -> "None"
              [] helperCall.arg = "1" -> "Once"
              [] helperCall.arg = "2" -> "Multiple"
              [] helperCall.arg = "9" -> "Heartbeat"
              [] OTHER -> "None"

\* sanitizeAdherenceCode has returned for a code of two characters.
LongCodeClassified ==
  /\ returned("sanitizeAdherenceCode")
  /\ helperCall.arg = "12"
  /\ helperResult[1] = "None"

\* ----------------------------------- reconciliation: further properties
\* The battery-health and device-health data values of an event.
deviceStateOf(e) ==
  SelectSeq(e.dataValues, LAMBDA dv :
    dv.dataElement \in {BATTERY_HEALTH_DATA_ELEMENT, DEVICE_HEALTH_DATA_ELEMENT})

\* The event the last run read from the tracker under the id of a payload.
storedEventOf(p) == SelectSeq(fetched, LAMBDA e : e.event = p.event)

\* C21: an event a run creates carries a battery-health or device-health
\* value only if the run had no window and the event is the one of the
\* freshest day, the day the device was last seen; no event created by a run
\* with a window and no event of an older day carries one.
DeviceStateOnFreshestDayOnly ==
  lastRun # "none" =>
    \A i \in 1..Len(payloads) :
      (storedEventOf(payloads[i]) = << >> /\ Len(deviceStateOf(payloads[i])) > 0)
        => /\ lastRun = "noWindow"
           /\ Len(episode.lastSeen) > 0
           /\ dayOfEvent(payloads[i]) = DayOf(fromSQL(episode.lastSeen[1]))

\* The number of data values of e for the data element.
countOf(e, dataElement) ==
  Len(SelectSeq(e.dataValues, LAMBDA dv : dv.dataElement = dataElement))

\* P holds of every merge of computed data values into the stored event of
\* their day that has a dosage time: of the stored event, the computed data
\* values and what getDHIS2EventPayload emits.
everyDosageMerge(P(_, _, _)) ==
  \A events \in {trackedEntityInstancesOf(remote)[1].events} :
    \A in \in ComputedDataValues :
      \A existing \in {existingEventOf(events, in.date)} :
        (/\ Len(existing) > 0
         /\ Len(dosageOf(existing[1])) > 0)
          => P(existing[1], in,
               getDHIS2EventPayload(programStage, TrackedEntities[1], in.date,
                                    events, in.dataValues, nextUid))

\* While a further run can start: whatever it merges into a stored event with
\* a dosage time and emits has the later of the two dosage times, one dosage
\* time and one signal.
LaterDosageOnMerge ==
  runs < MaxRuns =>
    everyDosageMerge(LAMBDA stored, computed, emitted :
      Len(emitted) > 0 =>
        /\ emitted[1].event = stored.event
        /\ dosageOf(emitted[1]) =
             IF fromISO(dosageOf(computed)[1]) > fromISO(dosageOf(stored)[1])
               THEN dosageOf(computed) ELSE dosageOf(stored)
        /\ countOf(emitted[1], DOSAGE_TIME_DATA_ELEMENT) = 1
        /\ countOf(emitted[1], DEVICE_SIGNAL_DATA_ELEMENT) = 1)

\* No step takes the dosage time of a stored event backward.
StoredDosageNeverEarlier ==
  \A i \in 1..Len(remote) :
    /\ i <= Len(remote')
    /\ remote'[i].event = remote[i].event
    /\ Len(dosageOf(remote[i])) > 0 =>
         /\ Len(dosageOf(remote'[i])) > 0
         /\ fromISO(dosageOf(remote'[i])[1]) >= fromISO(dosageOf(remote[i])[1])

\* C30: an event that getDHIS2EventPayload merges into a stored event with a
\* dosage time carries the later of the stored and the computed dosage time,
\* exactly one dosage time and exactly one device signal; and over every
\* sequence of runs the dosage time of a stored event never moves backward.
DosageMonotoneOnMerge == [](LaterDosageOnMerge) /\ [][StoredDosageNeverEarlier]_vars

\* A run with a window has merged a changed signal into a stored event whose
\* dosage time is later than the computed one, the start of the day, and the
\* event keeps the stored dosage time.
StoredDosageKept ==
  /\ lastRun = "window"
  /\ \E i \in 1..Len(payloads) : \E j \in 1..Len(fetched) :
       /\ payloads[i].event = fetched[j].event
       /\ signalOf(payloads[i]) # signalOf(fetched[j])
       /\ fromISO(dosageOf(fetched[j])[1]) > Midnight(dayOfEvent(fetched[j]))
       /\ dosageOf(payloads[i]) = dosageOf(fetched[j])
       /\ \E k \in 1..Len(remote) :
            remote[k].event = fetched[j].event /\ dosageOf(remote[k]) = dosageOf(fetched[j])

\* C22: generateEventPayload called with a window emits, on a tracker that
\* stores no event, one event for each code of the episode whose calendar day
\* lies between the day of startDate (the earliest day if none is given) and
\* the day of endDate (today if none is given), both included, whatever the
\* time of day of episodeStartDate is, and no event of a day outside the window.
WindowFiltersByDay ==
  returned("generateEventPayload") =>
    LET e == helperCall.arg.episode
        d == helperCall.arg.duration
        codes == split(e.adherenceString)
        firstDay == DayOf(fromSQL(e.episodeStartDate))
        startDay == IF Len(d.startDate) > 0 THEN DayOf(fromISO(d.startDate[1])) ELSE 0
        endDay == IF Len(d.endDate) > 0 THEN DayOf(fromISO(d.endDate[1]))
                  ELSE DayOf(helperCall.arg.now)
        inWindow == {i \in 1..Len(codes) :
                       startDay <= firstDay + i - 1 /\ firstDay + i - 1 <= endDay}
        emitted == helperResult[1]
    IN /\ Len(emitted) = Cardinality(inWindow)
       /\ \A i \in inWindow : \E j \in 1..Len(emitted) :
            /\ dayOfEvent(emitted[j]) = firstDay + i - 1
            /\ signalOf(emitted[j]) = << sanitizeAdherenceCode(codes[i]) >>
       /\ \A j \in 1..Len(emitted) :
            startDay <= dayOfEvent(emitted[j]) /\ dayOfEvent(emitted[j]) <= endDay

\* ---------------------------------------------------- upload: properties
\* C23: the pages are consecutive pieces of the list of at most 100 events,
\* all but the last of exactly 100, that put together give the list again;
\* the POSTs sent so far are the first pages, in order and each once; the
\* function never raises; and once it has returned every page has been
\* POSTed, however the POSTs of the earlier pages ended.
EveryPagePostedOnce ==
  uploadState # "idle" =>
    /\ \A k \in 1..Len(chunkedEvents) :
         /\ Len(chunkedEvents[k]) >= 1
         /\ Len(chunkedEvents[k]) <= paginationSize
         /\ k < Len(chunkedEvents) => Len(chunkedEvents[k]) = paginationSize
         /\ \A i \in 1..Len(chunkedEvents[k]) :
              chunkedEvents[k][i] = uploadEvents[(k - 1) * paginationSize + i]
    /\ Len(uploadEvents) <= Len(chunkedEvents) * paginationSize
    /\ Len(posts) <= Len(chunkedEvents)
    /\ \A k \in 1..Len(posts) : posts[k].events = chunkedEvents[k]
    /\ uploadState # "raised"
    /\ uploadState = "returned" => Len(posts) = Len(chunkedEvents)

\* ------------------------------------------- episode fetcher: properties
\* The GET to the url for the batch ended as told.
got(url, batch, outcome) ==
  \E i \in 1..Len(gets) :
    gets[i].url = url /\ gets[i].batch = batch /\ gets[i].outcome = outcome

\* Both GETs of the batch brought the records asked for.
batchSucceeded(batch) ==
  /\ got("episodes/getEpisodes", batch, "ok")
  /\ got("devices/getDeviceDetail", batch, "ok")

\* C24: getWisepillEpisodeValues never raises; it sends no GET twice for one
\* batch; and once it has returned it has asked for the episodes of every
\* batch and returns exactly the episodes of the batches both of whose GETs
\* succeeded, a batch with a failed GET being skipped.
FailedBatchSkipped ==
  fetchState # "idle" =>
    /\ fetchState # "raised"
    /\ \A i, j \in 1..Len(gets) :
         (i # j /\ gets[i].url = gets[j].url) => gets[i].batch # gets[j].batch
    /\ fetchState = "returned" =>
         /\ \A batch \in 1..Len(chuckedEpisodeIds) :
              \E i \in 1..Len(gets) :
                gets[i].url = "episodes/getEpisodes" /\ gets[i].batch = batch
         /\ {sanitizedEpisodes[i].id : i \in 1..Len(sanitizedEpisodes)}
              = UNION {{chuckedEpisodeIds[batch][i] : i \in 1..Len(chuckedEpisodeIds[batch])}
                         : batch \in {b \in 1..Len(chuckedEpisodeIds) : batchSucceeded(b)}}

\* ------------------------------------------- integration job: properties
\* The job has awaited the call for the k-th program mapping.
jobAwaited(name, k) ==
  \E i \in 1..Len(jobCalls) : jobCalls[i].name = name /\ jobCalls[i].mapping = k

\* C25: a job that has ended has either found no program mapping, and then
\* awaited no tracked-entity query, episode fetch or upload, or has queried
\* the tracked entities of every well-shaped program mapping, whatever the
\* shape of the other mappings and however the calls for them ended.
EveryMappingProcessed ==
  jobStep = "ended" =>
    IF Len(programMapping) = 0
      THEN jobCalls = << >> /\ jobEnded = "noMapping"
      ELSE \A k \in 1..Len(programMapping) :
             Len(programMapping[k].attributes) > 0
               => jobAwaited("getDhis2TrackedEntityInstancesWithEvents", k)

\* The calls that change the device registry.
MutatingRegistryCalls ==
  {"createDeviceWisepillEpisodes", "assignEpisodeToDevice",
   "unassignPreviousLinkedEpisodes", "closeWisepillEpisodes", "setTimezone",
   "setAlarm", "setRefillAlarm"}

firstRecordOf(envelope) ==
  IF Len(envelope.records) = 0 THEN << >> ELSE envelope.records[1]

\* C26: getDeviceDetailsFromWisepillAPI returns only after both GETs have
\* completed, and what it returns is determined by the two answers alone, in
\* whichever order they arrived: the status of the device details answer;
\* for a failed device lookup its Result and ResultCode; else the fields of
\* the device, overridden and extended by the fields of the episode, or
\* extended by the Result of a failed episode lookup.
DetailsMergedAfterBothAnswers ==
  detailsState = "returned" =>
    /\ Len(settled) = 2
    /\ {settled[1], settled[2]} = {"episodes", "deviceDetails"}
    /\ Len(detailsResult) = 1
    /\ detailsResult[1].status = deviceAnswer[1].status
    /\ LET data == detailsResult[1].data
           deviceData == deviceAnswer[1].data
           episodeData == episodeAnswer[1].data
           device == firstRecordOf(deviceData)
           episode_ == firstRecordOf(episodeData)
       IN IF deviceData.ResultCode # 0
            THEN /\ DOMAIN data = {"Result", "ResultCode"}
                 /\ data.Result = deviceData.Result
                 /\ data.ResultCode = deviceData.ResultCode
            ELSE IF episodeData.ResultCode # 0
              THEN /\ DOMAIN data = DOMAIN device \cup {"Result"}
                   /\ data.Result = episodeData.Result
                   /\ \A k \in DOMAIN device : data[k] = device[k]
              ELSE /\ DOMAIN data = DOMAIN device \cup DOMAIN episode_
                   /\ \A k \in DOMAIN episode_ : data[k] = episode_[k]
                   /\ \A k \in DOMAIN device \ DOMAIN episode_ : data[k] = device[k]

\* The device details were answered before the episodes, and the function
\* has returned the device's status with the episode's last_seen.
DetailsAnsweredFirst ==
  /\ detailsState = "returned"
  /\ settled = << "deviceDetails", "episodes" >>
  /\ DOMAIN detailsResult[1].data = {"device_imei", "device_status", "last_seen", "episode_id"}
  /\ detailsResult[1].data.device_status = "1"
  /\ detailsResult[1].data.episode_id = "ep1"
  /\ detailsResult[1].data.last_seen = "episode seen today"

\* --------------------------------------------------- alarms: properties
\* C27: binaryToDecimal returns -1 exactly when its argument holds a character
\* other than "0" and "1", and POST /alarms sends no PUT of devices/setAlarm
\* whose alarm_days is -1.
SentinelNeverSent ==
  /\ returned("binaryToDecimal")
       => ((helperResult[1] = -1) <=> (\E i \in 1..Len(helperCall.arg) : helperCall.arg[i] \notin Bits))
  /\ \A i \in 1..Len(alarmPuts) :
       alarmPuts[i].put = "devices/setAlarm" => alarmPuts[i].alarm_days # << -1 >>

\* An alarm has been sent with the day mask of the request, one that is
\* neither empty nor full, converted by binaryToDecimal.
DayMaskSent ==
  /\ returned("binaryToDecimal")
  /\ alarmBody.days # << >>
  /\ Len(alarmPuts) >= 1
  /\ alarmPuts[1].put = "devices/setAlarm"
  /\ alarmPuts[1].alarm_days = << helperResult[1] >>
  /\ helperResult[1] \notin {0, MaxDecimalValue}

\* C29: when POST /alarms answers 409 "No alarm was specified" it has sent no
\* PUT to the registry for the request, and when it answers after PUTs that
\* all succeeded the answer is 201.
NoAlarmSpecifiedWithoutPut ==
  alarmStep = "answered" =>
    /\ alarmResponse = << alarmAnswer(409, "No alarm was specified") >> => alarmPuts = << >>
    /\ (alarmPuts # << >> /\ \A i \in 1..Len(alarmPuts) : alarmPuts[i].result = "succeeded")
         => alarmResponse[1].status = 201

====
